---- MODULE Spec2Model ----
(***************************************************************************)
(* A model of the DHT node of rustydht-lib: the state behind the coarse    *)
(* mutex (src/dht/dht.rs, DHTState), the request handlers of the accept    *)
(* task, token rotation and the event loop.                                *)
(*                                                                         *)
(* Ids, info-hashes, addresses and secrets are drawn from small sets.  The *)
(* token checksum is CRC-32C computed bit by bit on 32-bit words held as   *)
(* two 16-bit halves <<hi, lo>>.                                           *)
(***************************************************************************)
EXTENDS Naturals, Sequences, FiniteSets, TLC

(***************************************************************************)
(* Bounds and scaled settings.                                             *)
(***************************************************************************)
\* settings.token_secret_size, in bytes (20 by default, scaled down)
token_secret_size == 1
\* settings.get_peers_freshness_secs (scaled down)
get_peers_freshness_secs == 2
\* settings.max_peers_response (scaled down)
max_peers_response == 1
\* settings.max_sample_response (scaled down)
max_sample_response == 2
\* settings.min_sample_interval_secs (scaled down)
min_sample_interval_secs == 10
\* settings.max_torrents and settings.max_peers_per_torrent (scaled down)
max_torrents == 3
max_peers_per_torrent == 2
\* the monotonic clock is stopped at this value
MaxNow == 2
\* width of an Id in bits (160 in the program)
IdBits == 4
\* the number of subscriptions taken
MaxSubscribers == 1

\* the values a byte of a secret is drawn from
SecretBytes == {17, 202}
\* what make_token_secret(size) can return: size random bytes
make_token_secret(size) == [1..size -> SecretBytes]

LOCALHOST == <<127, 0, 0, 1>>
PublicIp == <<1, 2, 3, 4>>
OtherIp == <<5, 6, 7, 8>>
IPs == {LOCALHOST, PublicIp, OtherIp}

Ids == 0..(2^IdBits - 1)

\* Option<T>: None is the empty sequence, Some(x) a sequence of one element
NoneV == <<>>
Some(x) == <<x>>
IsSome(o) == o # <<>>
Unwrap(o) == o[1]

(***************************************************************************)
(* CRC-32C (crc32::Digest with crc32::CASTAGNOLI).                         *)
(***************************************************************************)
RECURSIVE Xor(_, _)
Xor(a, b) ==
    IF a = 0 THEN b
    ELSE IF b = 0 THEN a
    ELSE ((a + b) % 2) + 2 * Xor(a \div 2, b \div 2)

\* the reflected Castagnoli polynomial 0x82F63B78, high and low half
PolyHi == 33526
PolyLo == 15224

\* n bits of the reflected division: shift right and, when the bit shifted
\* out is set, subtract the polynomial
RECURSIVE ShiftN(_, _)
ShiftN(v, n) ==
    IF n = 0 THEN v
    ELSE IF v[2] % 2 = 1
    THEN ShiftN(<<Xor(v[1] \div 2, PolyHi),
                  Xor((v[2] \div 2) + (v[1] % 2) * 32768, PolyLo)>>, n - 1)
    ELSE ShiftN(<<v[1] \div 2, (v[2] \div 2) + (v[1] % 2) * 32768>>, n - 1)

Not32(v) == <<65535 - v[1], 65535 - v[2]>>

RECURSIVE UpdateBytes(_, _)
UpdateBytes(v, bytes) ==
    IF bytes = <<>> THEN v
    ELSE UpdateBytes(ShiftN(<<v[1], Xor(v[2], Head(bytes))>>, 8), Tail(bytes))

\* Digest::write: the running value is complemented on the way in and out
digest_write(value, bytes) == Not32(UpdateBytes(Not32(value), bytes))

\* u32::to_be_bytes
to_be_bytes(v) == <<v[1] \div 256, v[1] % 256, v[2] \div 256, v[2] % 256>>

(***************************************************************************)
(* calculate_token: CRC-32C of the IP octets followed by the secret.       *)
(***************************************************************************)
checksum_token(octets, secret) ==
    to_be_bytes(digest_write(digest_write(<<0, 0>>, octets), secret))

\* the checksums of every address and secret of the model, computed once
TokenTable ==
    {<<ip, secret, checksum_token(ip, secret)>> :
        ip \in IPs, secret \in make_token_secret(token_secret_size)}

\* a wrong variant: the port is part of what is digested
\* (digest.write(&sockaddr_to_bytes(remote)))
calculate_token_with_port(remote, secret) ==
    checksum_token(remote.ip \o <<remote.port \div 256, remote.port % 256>>, secret)

calculate_token(remote, secret) ==
    (CHOOSE t \in TokenTable : t[1] = remote.ip /\ t[2] = secret)[3]

(***************************************************************************)
(* Id (the crate's common::Id, scaled to IdBits bits).  BEP-42: the top    *)
(* bits of an Id are the top bits of the CRC-32C of the masked IP with the *)
(* Id's low bits or-ed into the first octet; private and loopback          *)
(* addresses are exempt.                                                   *)
(***************************************************************************)
IdRandBits == IdBits - 3
IdPrefixBits == IdBits - 2

IsLocalIp(ip) ==
    \/ ip[1] = 127
    \/ ip[1] = 10
    \/ ip[1] = 172 /\ ip[2] \in 16..31
    \/ ip[1] = 192 /\ ip[2] = 168
    \/ ip[1] = 169 /\ ip[2] = 254

Bep42Prefix(ip, r) ==
    digest_write(<<0, 0>>,
        <<(ip[1] % 4) + r * 32, ip[2] % 16, ip[3] % 64, ip[4]>>)[1]
            \div 2^(16 - IdPrefixBits)

\* the Ids valid for each address of the model, computed once
ValidTable ==
    UNION {IF \/ IsLocalIp(ip)
              \/ id \div 2^(IdBits - IdPrefixBits) = Bep42Prefix(ip, id % 2^IdRandBits)
           THEN {<<id, ip>>} ELSE {} : id \in 0..(2^IdBits - 1), ip \in IPs}

is_valid_for_ip(id, ip) == <<id, ip>> \in ValidTable

\* the XOR metric
xor(a, b) == Xor(a, b)

(***************************************************************************)
(* NodeStorage (the routing table): a set of wrappers [node, verified],    *)
(* at most one per Id, keyed by the local Id.  With IdBits <= 4 a bucket   *)
(* of k = 8 can never overflow, so no wrapper is ever evicted.             *)
(***************************************************************************)
K == 8

Node_new(id, address) == [id |-> id, address |-> address]

NodeStorage_new == [id |-> 0, nodes |-> {}]

\* a wrong variant: the table keeps the Id it had
set_id_keeps_id(b, id) == b

set_id(b, id) == [b EXCEPT !.id = id]

add_or_update(b, node, verified) ==
    IF \E w \in b.nodes : w.node.id = node.id
    THEN [b EXCEPT !.nodes =
            {IF w.node.id = node.id
                THEN [w EXCEPT !.verified = w.verified \/ verified]
                ELSE w : w \in b.nodes}]
    ELSE [b EXCEPT !.nodes = b.nodes \cup {[node |-> node, verified |-> verified]}]

count(b) ==
    <<Cardinality({w \in b.nodes : ~w.verified}),
      Cardinality({w \in b.nodes : w.verified})>>

get_all_verified(b) == {w \in b.nodes : w.verified}

get_all_unverified(b) == {w \in b.nodes : ~w.verified}

\* the nodes of ws in ascending XOR distance to target, at most n of them
RECURSIVE NearestFirst(_, _, _)
NearestFirst(ws, target, n) ==
    IF ws = {} \/ n = 0 THEN <<>>
    ELSE LET w == CHOOSE x \in ws :
                    \A y \in ws : xor(x.node.id, target) <= xor(y.node.id, target)
         IN  <<w.node>> \o NearestFirst(ws \ {w}, target, n - 1)

get_nearest_nodes(b, target, exclude) ==
    NearestFirst({w \in b.nodes : w.verified /\ Some(w.node.id) # exclude}, target, K)

(***************************************************************************)
(* PeerStorage: info-hashes, oldest first, each with its peers, oldest     *)
(* first; both capped by dropping the oldest.                              *)
(***************************************************************************)
PeerStorage_new == <<>>

IndexOfHash(ps, info_hash) ==
    IF \E i \in 1..Len(ps) : ps[i].info_hash = info_hash
    THEN CHOOSE i \in 1..Len(ps) : ps[i].info_hash = info_hash
    ELSE 0

RemoveAt(s, i) == SubSeq(s, 1, i - 1) \o SubSeq(s, i + 1, Len(s))

TrimOldest(s, cap) == IF Len(s) > cap THEN SubSeq(s, Len(s) - cap + 1, Len(s)) ELSE s

PeerStorage_announce_peer(ps, info_hash, addr, t) ==
    LET i == IndexOfHash(ps, info_hash)
        old == IF i = 0 THEN <<>> ELSE ps[i].peers
        kept == SelectSeq(old, LAMBDA p : p.addr # addr)
        peers == TrimOldest(Append(kept, [addr |-> addr, last_updated |-> t]),
                            max_peers_per_torrent)
        rest == IF i = 0 THEN ps ELSE RemoveAt(ps, i)
    IN  TrimOldest(Append(rest, [info_hash |-> info_hash, peers |-> peers]), max_torrents)

PeerStorage_get_peers_info(ps, info_hash, newer_than) ==
    LET i == IndexOfHash(ps, info_hash)
    IN  IF i = 0 THEN <<>>
        ELSE SelectSeq(ps[i].peers,
                LAMBDA p : ~IsSome(newer_than) \/ p.last_updated > Unwrap(newer_than))

PeerStorage_get_peers(ps, info_hash, newer_than) ==
    LET infos == PeerStorage_get_peers_info(ps, info_hash, newer_than)
    IN  [k \in 1..Len(infos) |-> infos[k].addr]

PeerStorage_get_info_hashes(ps) == [k \in 1..Len(ps) |-> ps[k].info_hash]

\* a wrong variant: the subtraction saturates at the start of the clock
checked_sub_saturating(t, d) == IF t >= d THEN Some(t - d) ELSE Some(0)

\* Instant::checked_sub: None when the clock has not yet run for d
checked_sub(t, d) == IF t >= d THEN Some(t - d) ELSE NoneV

\* a wrong variant: nothing is cut off
truncate_nothing(s, n) == s

\* Vec::truncate
truncate(s, n) == IF Len(s) > n THEN SubSeq(s, 1, n) ELSE s

(***************************************************************************)
(* State.                                                                  *)
(***************************************************************************)
VARIABLES
    our_id,             \* DHTState.our_id
    buckets,            \* DHTState.buckets
    peer_storage,       \* DHTState.peer_storage
    token_secret,       \* DHTState.token_secret
    old_token_secret,   \* DHTState.old_token_secret
    read_only,          \* DHTState.settings.read_only
    subscribers,        \* DHTState.subscribers
    ip4_source,         \* DHTState.ip4_source: the votes on our external IPv4
    pending,            \* the reply slots of the requests in flight (DHTSocket)
    replies,            \* the reply slots that hold a reply their waiter has not
                        \* taken yet
    now,                \* the monotonic clock (Instant::now)
    tasks,              \* the state of each future joined by run_event_loop
    shutdown,           \* whether the Shutdown token has been signalled
    result,             \* what run_event_loop returned, if it has returned
    last,               \* history: the last operation, its inputs and what it sent
    tracked,            \* history: one token issued by a get_peers reply, and
                        \* the number of rotations since (2 stands for 2 or more)
    op,                 \* the task of a user of the node: a call of send_request
                        \* or one of the iterative operations, and its locals
    mutex,              \* the Mutex around DHTState: the task that holds a
                        \* MutexGuard, where each task is in its code, and the
                        \* tasks suspended at an await
    find_node_round     \* periodic_find_node: the counts it read at the start
                        \* of a pass, while the pass is under way

state_vars == <<our_id, buckets, peer_storage, token_secret, old_token_secret,
                read_only, subscribers, ip4_source, pending, replies>>
loop_vars == <<tasks, shutdown, result, mutex, find_node_round>>
vars == <<state_vars, now, loop_vars, last, tracked, op>>

(***************************************************************************)
(* Messages (crate::packets) and MessageBuilder.                           *)
(***************************************************************************)
SocketAddr(ip, port) == [ip |-> ip, port |-> port]

NoAddr == SocketAddr(<<0, 0, 0, 0>>, 0)

NoMsg ==
    [message_type |-> "None", kind |-> "None", transaction_id |-> 0,
     requester_id |-> 0, target |-> 0, token |-> <<>>, port |-> 0,
     implied_port |-> NoneV, read_only |-> NoneV]

Request(kind, tid, requester_id, ro) ==
    [NoMsg EXCEPT !.message_type = "Request", !.kind = kind,
                  !.transaction_id = tid, !.requester_id = requester_id,
                  !.read_only = ro]

new_ping_request(tid, id, ro) == Request("ping", tid, id, ro)

new_find_node_request(tid, id, ro, target) ==
    [Request("find_node", tid, id, ro) EXCEPT !.target = target]

new_get_peers_request(tid, id, ro, info_hash) ==
    [Request("get_peers", tid, id, ro) EXCEPT !.target = info_hash]

new_sample_infohashes_request(tid, id, ro, target) ==
    [Request("sample_infohashes", tid, id, ro) EXCEPT !.target = target]

new_announce_peer_request(tid, id, ro, info_hash, port, implied_port, token) ==
    [Request("announce_peer", tid, id, ro) EXCEPT
        !.target = info_hash, !.port = port, !.implied_port = implied_port,
        !.token = token]

\* Message::get_author_id: every request and response names its author
get_author_id(msg) ==
    IF msg.message_type = "Request" THEN Some(msg.requester_id)
    ELSE IF msg.message_type = "Response" THEN Some(msg.responder_id)
    ELSE NoneV

NoResponse ==
    [message_type |-> "Response", kind |-> "None", transaction_id |-> 0,
     responder_id |-> 0, requester_ip |-> NoneV,
     token |-> <<>>, values |-> "None", nodes |-> <<>>, peers |-> <<>>,
     samples |-> <<>>, num |-> 0, interval |-> 0]

Response(kind, sender_id, tid, requester_ip) ==
    [NoResponse EXCEPT !.kind = kind, !.transaction_id = tid,
                       !.responder_id = sender_id,
                       !.requester_ip = Some(requester_ip)]

new_ping_response(sender_id, tid, requester_ip) ==
    Response("PingResponse", sender_id, tid, requester_ip)

\* the reply to announce_peer is a ping response
new_announce_peer_response(sender_id, tid, requester_ip) ==
    Response("PingResponse", sender_id, tid, requester_ip)

new_find_node_response(sender_id, tid, requester_ip, nodes) ==
    [Response("FindNodeResponse", sender_id, tid, requester_ip) EXCEPT
        !.nodes = nodes]

new_get_peers_response_nodes(sender_id, tid, requester_ip, token, nodes) ==
    [Response("GetPeersResponse", sender_id, tid, requester_ip) EXCEPT
        !.token = token, !.values = "Nodes", !.nodes = nodes]

new_get_peers_response_peers(sender_id, tid, requester_ip, token, peers) ==
    [Response("GetPeersResponse", sender_id, tid, requester_ip) EXCEPT
        !.token = token, !.values = "Peers", !.peers = peers]

new_sample_infohashes_response(sender_id, tid, requester_ip, interval, nodes, samples, num) ==
    [Response("SampleInfoHashesResponse", sender_id, tid, requester_ip) EXCEPT
        !.interval = interval, !.nodes = nodes, !.samples = samples, !.num = num]

\* a KRPC error message: it names no author
new_error(tid) ==
    [Response("Error", 0, tid, NoAddr) EXCEPT
        !.message_type = "Error", !.requester_ip = NoneV]

(***************************************************************************)
(* Request handling (accept_single_packet).  A handler reads the state and *)
(* yields the new routing table and peer storage, the reply it built (an   *)
(* Option) and the error it ended with (an Option).                        *)
(***************************************************************************)
Handled(b, ps, reply, err) ==
    [buckets |-> b, peer_storage |-> ps, reply |-> reply, err |-> err]

\* a wrong variant: the read-only flag of the request is not looked at
common_request_handling_any_sender(b, remote_addr, msg) ==
    [err |-> NoneV,
     buckets |-> IF is_valid_for_ip(msg.requester_id, remote_addr.ip)
                 THEN add_or_update(b, Node_new(msg.requester_id, remote_addr), FALSE)
                 ELSE b]

common_request_handling(b, remote_addr, msg) ==
    LET sender_id == get_author_id(msg)
    IN  IF ~IsSome(sender_id)
        THEN [err |-> Some("PacketParseError"), buckets |-> b]
        ELSE LET is_id_valid == is_valid_for_ip(Unwrap(sender_id), remote_addr.ip)
                 ro == IF IsSome(msg.read_only) THEN Unwrap(msg.read_only) ELSE FALSE
             IN  [err |-> NoneV,
                  buckets |-> IF is_id_valid /\ ~ro
                              THEN add_or_update(b, Node_new(Unwrap(sender_id), remote_addr), FALSE)
                              ELSE b]

\* a wrong variant: the reply names the requester's Id as the responder's
PingRequest_requester_id(msg, addr) ==
    LET c == common_request_handling(buckets, addr, msg)
    IN  IF IsSome(c.err) THEN Handled(buckets, peer_storage, NoneV, c.err)
        ELSE Handled(c.buckets, peer_storage,
                Some(new_ping_response(msg.requester_id, msg.transaction_id, addr)), NoneV)

PingRequest(msg, addr) ==
    LET c == common_request_handling(buckets, addr, msg)
    IN  IF IsSome(c.err) THEN Handled(buckets, peer_storage, NoneV, c.err)
        ELSE Handled(c.buckets, peer_storage,
                Some(new_ping_response(our_id, msg.transaction_id, addr)), NoneV)

\* a wrong variant: the requester of get_peers is stored as a peer
GetPeersRequest_stores_requester(msg, addr) ==
    LET c == common_request_handling(buckets, addr, msg)
        token == calculate_token(addr, token_secret)
        nearest == get_nearest_nodes(c.buckets, msg.target, Some(msg.requester_id))
    IN  IF IsSome(c.err) THEN Handled(buckets, peer_storage, NoneV, c.err)
        ELSE Handled(c.buckets,
                PeerStorage_announce_peer(peer_storage, msg.target, addr, now),
                Some(new_get_peers_response_nodes(our_id, msg.transaction_id, addr,
                                                  token, nearest)),
                NoneV)

GetPeersRequest(msg, addr) ==
    LET c == common_request_handling(buckets, addr, msg)
        newer_than == checked_sub(now, get_peers_freshness_secs)
        peers == truncate(PeerStorage_get_peers(peer_storage, msg.target, newer_than),
                          max_peers_response)
        token == calculate_token(addr, token_secret)
        nearest == get_nearest_nodes(c.buckets, msg.target, Some(msg.requester_id))
    IN  IF IsSome(c.err) THEN Handled(buckets, peer_storage, NoneV, c.err)
        ELSE Handled(c.buckets, peer_storage,
                Some(IF Len(peers) = 0
                     THEN new_get_peers_response_nodes(our_id, msg.transaction_id, addr,
                                                       token, nearest)
                     ELSE new_get_peers_response_peers(our_id, msg.transaction_id, addr,
                                                       token, peers)),
                NoneV)

\* a wrong variant: the requester is not excluded from the nearest nodes
FindNodeRequest_no_exclude(msg, addr) ==
    LET c == common_request_handling(buckets, addr, msg)
        nearest == get_nearest_nodes(c.buckets, msg.target, NoneV)
    IN  IF IsSome(c.err) THEN Handled(buckets, peer_storage, NoneV, c.err)
        ELSE Handled(c.buckets, peer_storage,
                Some(new_find_node_response(our_id, msg.transaction_id, addr, nearest)),
                NoneV)

FindNodeRequest(msg, addr) ==
    LET c == common_request_handling(buckets, addr, msg)
        nearest == get_nearest_nodes(c.buckets, msg.target, Some(msg.requester_id))
    IN  IF IsSome(c.err) THEN Handled(buckets, peer_storage, NoneV, c.err)
        ELSE Handled(c.buckets, peer_storage,
                Some(new_find_node_response(our_id, msg.transaction_id, addr, nearest)),
                NoneV)

\* a wrong variant: every token is taken for valid
is_token_valid_any(token, addr) == Len(token) = 4

is_token_valid(token, addr) ==
    \/ token = calculate_token(addr, token_secret)
    \/ token = calculate_token(addr, old_token_secret)

\* a wrong variant: the port of the arguments is always the one stored
announce_sockaddr_explicit(arguments, addr) == SocketAddr(addr.ip, arguments.port)

\* the socket address announced: the source address when implied_port is
\* Some(true), else the source IP with the port of the arguments
announce_sockaddr(arguments, addr) ==
    IF arguments.implied_port = Some(TRUE) THEN addr
    ELSE SocketAddr(addr.ip, arguments.port)

AnnouncePeerRequest(msg, addr) ==
    LET c == common_request_handling(buckets, addr, msg)
    IN  IF IsSome(c.err) THEN Handled(buckets, peer_storage, NoneV, c.err)
        ELSE IF is_token_valid(msg.token, addr)
        THEN Handled(c.buckets,
                PeerStorage_announce_peer(peer_storage, msg.target,
                                          announce_sockaddr(msg, addr), now),
                Some(new_announce_peer_response(our_id, msg.transaction_id, addr)),
                NoneV)
        ELSE Handled(c.buckets, peer_storage, NoneV, NoneV)

Range(s) == {s[k] : k \in DOMAIN s}

Min(a, b) == IF a <= b THEN a ELSE b

\* a wrong variant: an element may be drawn more than once
partial_shuffle_repeating(slice, amount) ==
    [1..Min(amount, Len(slice)) -> Range(slice)]

\* what partial_shuffle(rng, amount).0 can be: amount elements of the slice
\* (all of them when it is shorter), in any order
partial_shuffle(slice, amount) ==
    {q \in [1..Min(amount, Len(slice)) -> Range(slice)] :
        \A i, j \in DOMAIN q : q[i] = q[j] => i = j}

\* samples: the outcome of the shuffle
SampleInfoHashesRequest(msg, addr, samples) ==
    LET c == common_request_handling(buckets, addr, msg)
        nearest == get_nearest_nodes(c.buckets, msg.target, Some(msg.requester_id))
        total_info_hashes == Len(PeerStorage_get_info_hashes(peer_storage))
    IN  IF IsSome(c.err) THEN Handled(buckets, peer_storage, NoneV, c.err)
        ELSE Handled(c.buckets, peer_storage,
                Some(new_sample_infohashes_response(our_id, msg.transaction_id, addr,
                        min_sample_interval_secs, nearest, samples, total_info_hashes)),
                NoneV)

\* env: what the environment decides while the packet is handled:
\* throttled (Throttler::check_throttle), send_result (DHTSocket::send_to),
\* samples (the random shuffle)
accept_single_packet(msg, addr, env) ==
    LET h == IF msg.message_type # "Request"
                THEN Handled(buckets, peer_storage, NoneV, NoneV)
             ELSE IF msg.kind = "ping" THEN PingRequest(msg, addr)
             ELSE IF msg.kind = "get_peers" THEN GetPeersRequest(msg, addr)
             ELSE IF msg.kind = "find_node" THEN FindNodeRequest(msg, addr)
             ELSE IF msg.kind = "announce_peer" THEN AnnouncePeerRequest(msg, addr)
             ELSE SampleInfoHashesRequest(msg, addr, env.samples)
        send_failed == IsSome(h.reply) /\ env.send_result # "Ok"
    IN  [buckets |-> h.buckets,
         peer_storage |-> h.peer_storage,
         sent |-> IF IsSome(h.reply) /\ ~send_failed
                  THEN <<[to |-> addr, msg |-> Unwrap(h.reply)]>> ELSE <<>>,
         err |-> IF send_failed THEN Some(env.send_result) ELSE h.err]

(***************************************************************************)
(* Subscribers: a queue of events each, of capacity 32, and whether the    *)
(* receiver was dropped.                                                   *)
(***************************************************************************)
SubscriberCapacity == 32

try_send(sub, event) ==
    IF sub.closed THEN "Closed"
    ELSE IF Len(sub.queue) >= SubscriberCapacity THEN "Full"
    ELSE "Ok"

\* a wrong variant: a subscriber whose queue is full is removed too
send_packet_to_subscribers_retain_sent(subs, msg) ==
    LET offered == [k \in 1..Len(subs) |->
                        IF try_send(subs[k], msg) = "Ok"
                        THEN [subs[k] EXCEPT !.queue = Append(@, msg)]
                        ELSE [subs[k] EXCEPT !.closed = TRUE]]
    IN  SelectSeq(offered, LAMBDA sub : ~sub.closed)

send_packet_to_subscribers(subs, msg) ==
    LET offered == [k \in 1..Len(subs) |->
                        IF try_send(subs[k], msg) = "Ok"
                        THEN [subs[k] EXCEPT !.queue = Append(@, msg)]
                        ELSE subs[k]]
    IN  SelectSeq(offered, LAMBDA sub : ~sub.closed)

(***************************************************************************)
(* The event loop (run_event_loop): the futures joined by try_join!, in    *)
(* the order they are given.                                               *)
(***************************************************************************)
TaskOrder ==
    <<"ping_routers", "accept_incoming_packets", "periodic_router_ping",
      "periodic_buddy_ping", "periodic_find_node", "periodic_ip4_maintenance",
      "periodic_token_rotation", "shutdown_watch">>

Tasks == Range(TaskOrder)

ErrorKinds ==
    {"GeneralError", "PacketParseError", "ConntrackError", "TimeoutError",
     "ShutdownError"}

Running(task) == tasks[task] = "Running" /\ ~IsSome(result)

\* try_join!: pending while no future has ended with an error and some
\* future has not ended; else the first error in the order of the futures,
\* or "Ok" when all of them ended well
try_join(ts) ==
    IF \E k \in DOMAIN TaskOrder : ts[TaskOrder[k]] \in ErrorKinds
    THEN Some(ts[TaskOrder[CHOOSE k \in DOMAIN TaskOrder :
                    /\ ts[TaskOrder[k]] \in ErrorKinds
                    /\ \A j \in 1..(k - 1) : ts[TaskOrder[j]] \notin ErrorKinds]])
    ELSE IF \A t \in Tasks : ts[t] = "Ok" THEN Some("Ok")
    ELSE NoneV

\* a wrong variant: the error of the join is handed back as it is
run_event_loop_raw(ts) == try_join(ts)

\* what run_event_loop returns, if it returns: "Ok" for Ok(()), else the
\* kind of the error
run_event_loop(ts) ==
    LET joined == try_join(ts)
    IN  IF ~IsSome(joined) THEN NoneV
        ELSE IF Unwrap(joined) = "ShutdownError" THEN Some("Ok")
        ELSE joined

NoOp ==
    [op |-> "none", msg |-> NoMsg, addr |-> NoAddr, time |-> 0,
     passed |-> FALSE, dispatched |-> FALSE, sent |-> <<>>, err |-> NoneV,
     subscribers |-> 0, offered |-> NoneV, id |-> NoneV, best |-> NoneV,
     count |-> <<0, 0>>, first |-> FALSE, throttled |-> FALSE, pinged |-> {}]

(***************************************************************************)
(* DHTSocket: the reply slot of a request in flight is keyed by the        *)
(* transaction id and the destination, by its Id when the caller knows it  *)
(* and by its IP address otherwise.                                        *)
(***************************************************************************)
SlotFor(dest, dest_id, tid) ==
    [dest |-> dest, dest_id |-> dest_id, transaction_id |-> tid]

Slot(dest, tid) == SlotFor(dest, NoneV, tid)

\* transaction ids are unique among the requests in flight, those whose
\* reply waits in its slot included
FreshTid(tid) == \A slot \in pending \cup {r.slot : r \in replies} : slot.transaction_id # tid

SlotMatches(slot, msg, addr) ==
    /\ slot.transaction_id = msg.transaction_id
    /\ IF IsSome(slot.dest_id) /\ IsSome(get_author_id(msg))
       THEN get_author_id(msg) = slot.dest_id
       ELSE addr.ip = slot.dest.ip

\* recv_from: a request is handed to the caller; a response or an error is
\* put in the slot it matches and handed to the caller too; one that
\* matches no slot is dropped
recv_from(msg, addr) ==
    IF msg.message_type = "Request"
    THEN [pending |-> pending, replies |-> replies, err |-> NoneV]
    ELSE IF \E slot \in pending : SlotMatches(slot, msg, addr)
    THEN LET slot == CHOOSE x \in pending : SlotMatches(x, msg, addr)
         IN  [pending |-> pending \ {slot},
              replies |-> replies \cup {[slot |-> slot, reply |-> msg]},
              err |-> NoneV]
    ELSE [pending |-> pending, replies |-> replies, err |-> Some("ConntrackError")]

\* IPV4AddrSource: the votes [voter, ip, weight], one for each voter.  A new
\* vote has weight VoteWeight and replaces the voter's previous one; decay
\* takes one off each weight and drops the votes that reach zero; the best
\* address is one with the most votes, if it has MinVotes
VoteWeight == 2
MinVotes == 1

add_vote(source, their_ip, claimed_ip) ==
    {v \in source : v.voter # their_ip}
        \cup {[voter |-> their_ip, ip |-> claimed_ip, weight |-> VoteWeight]}

decay(source) ==
    {[v EXCEPT !.weight = @ - 1] : v \in {u \in source : u.weight > 1}}

Tally(source, ip) == Cardinality({v \in source : v.ip = ip})

\* what get_best_ipv4 can return (a tie is broken either way)
get_best_ipv4(source) ==
    LET best == {v.ip : v \in {u \in source :
                    /\ Tally(source, u.ip) >= MinVotes
                    /\ \A w \in source : Tally(source, w.ip) <= Tally(source, u.ip)}}
    IN  IF best = {} THEN {NoneV} ELSE {Some(ip) : ip \in best}

\* what Id::from_ip can return: an Id valid for the address
from_ip(ip) == {id \in Ids : is_valid_for_ip(id, ip)}

\* a wrong variant: the address source is asked first
DHT_new_our_id_from_ip_first(id, best) ==
    IF IsSome(best) THEN from_ip(Unwrap(best))
    ELSE IF IsSome(id) THEN {Unwrap(id)}
    ELSE Ids

\* DHT::new: what the local Id can be, given the Id of the caller and what
\* get_best_ipv4 returned (Id::from_random can return any Id)
DHT_new_our_id(id, best) ==
    IF IsSome(id) THEN {Unwrap(id)}
    ELSE IF IsSome(best) THEN from_ip(Unwrap(best))
    ELSE Ids

\* the user's task when it has called nothing
NoCall ==
    [kind |-> "none", pc |-> "idle", target |-> 0, port |-> NoneV,
     buckets |-> {}, best_ids |-> <<>>, todos |-> {}, unique_peers |-> {},
     responders |-> <<>>, to_ret |-> <<>>, result |-> NoneV,
     timeout |-> NoneV, started |-> 0, slots |-> {},
     sent_at |-> 0, wake_at |-> 0,
     rounds |-> 0, heard |-> {}, skipped |-> {}, ended |-> {},
     announced |-> {}]

(***************************************************************************)
(* The Mutex around DHTState.  The code of a task is the sequence of what  *)
(* it does to the Mutex and of its awaits, in program order: "lock" is     *)
(* state.lock().unwrap(), "unlock" the drop of that MutexGuard (the end of *)
(* the statement for a temporary, the end of the block for a let), "await" *)
(* an await that can suspend the task.  After the last step the task goes  *)
(* on at the top of its loop (LoopTop).  std::sync::Mutex: lock() blocks   *)
(* while another task holds the guard.                                     *)
(***************************************************************************)
Lock(what) == [ev |-> "lock", what |-> what]
Unlock(what) == [ev |-> "unlock", what |-> what]
Await(what) == [ev |-> "await", what |-> what]

\* accept_incoming_packets on a get_peers request of a node that is not
\* read-only
accept_incoming_packets_code ==
    <<Lock("settings.read_only"), Unlock("settings.read_only"),
      Await("recv_from"),
      Lock("common_request_handling"), Unlock("common_request_handling"),
      Lock("GetPeersRequest"), Unlock("GetPeersRequest"),
      Await("send_to"),
      Lock("send_packet_to_subscribers"), Unlock("send_packet_to_subscribers")>>

\* a wrong variant: the guard is kept until the next pass of the loop
periodic_ip4_maintenance_code_guard_kept ==
    <<Lock("ip4_source.decay"), Await("sleep"), Unlock("ip4_source.decay")>>

periodic_ip4_maintenance_code ==
    <<Await("sleep"), Lock("ip4_source.decay"), Unlock("ip4_source.decay")>>

\* periodic_buddy_ping with a node to ping; ping_internal spawns the ping
\* and is never pending
periodic_buddy_ping_code ==
    <<Lock("ping_check_interval_secs"), Unlock("ping_check_interval_secs"),
      Await("sleep"),
      Lock("buckets.prune"), Unlock("buckets.prune"),
      Lock("get_all_unverified"), Unlock("get_all_unverified")>>

\* the task spawned by ping_internal
ping_internal_code ==
    <<Lock("new_ping_request"), Unlock("new_ping_request"),
      Await("send_to"), Await("receiver.recv"),
      Lock("add_or_update"), Unlock("add_or_update")>>

\* ping_routers for one router
ping_routers_code ==
    <<Lock("settings.routers"), Unlock("settings.routers"), Await("lookup_host")>>

\* find_node of operations.rs, one pass of its loop
find_node_code ==
    <<Lock("get_settings"), Unlock("get_settings"),
      Lock("get_nodes"), Unlock("get_nodes"),
      Lock("get_id"), Unlock("get_id"),
      Await("todos.next"), Await("sleep")>>

MutexTasks ==
    {"accept_incoming_packets", "periodic_ip4_maintenance", "periodic_buddy_ping",
     "ping_internal", "ping_routers", "find_node"}

Code(t) ==
    CASE t = "accept_incoming_packets" -> accept_incoming_packets_code
      [] t = "periodic_ip4_maintenance" -> periodic_ip4_maintenance_code
      [] t = "periodic_buddy_ping" -> periodic_buddy_ping_code
      [] t = "ping_internal" -> ping_internal_code
      [] t = "ping_routers" -> ping_routers_code
      [] t = "find_node" -> find_node_code

\* the first step of the loop of a task; a task without a loop starts anew
LoopTop(t) ==
    CASE t = "accept_incoming_packets" -> 3
      [] t = "find_node" -> 3
      [] OTHER -> 1

NoMutex ==
    [holder |-> NoneV, at |-> [t \in MutexTasks |-> 1], suspended |-> {}]

After(t) == IF mutex.at[t] = Len(Code(t)) THEN LoopTop(t) ELSE mutex.at[t] + 1

StepOf(t) == Code(t)[mutex.at[t]]

MutexFrame ==
    UNCHANGED <<state_vars, now, tasks, shutdown, result, find_node_round, last, tracked, op>>

\* state.lock().unwrap() returns once no other task holds the guard
MutexLock(t) ==
    /\ t \notin mutex.suspended
    /\ StepOf(t).ev = "lock"
    /\ mutex.holder = NoneV
    /\ mutex' = [mutex EXCEPT !.holder = Some(t), !.at[t] = After(t)]
    /\ MutexFrame

\* the MutexGuard is dropped
MutexUnlock(t) ==
    /\ t \notin mutex.suspended
    /\ StepOf(t).ev = "unlock"
    /\ mutex' = [mutex EXCEPT !.holder = IF @ = Some(t) THEN NoneV ELSE @,
                              !.at[t] = After(t)]
    /\ MutexFrame

\* the future of the await is pending: the task yields
Suspend(t) ==
    /\ t \notin mutex.suspended
    /\ StepOf(t).ev = "await"
    /\ mutex' = [mutex EXCEPT !.suspended = @ \cup {t}]
    /\ MutexFrame

\* the future of the await is ready: the task goes on
Resume(t) ==
    /\ t \in mutex.suspended
    /\ mutex' = [mutex EXCEPT !.suspended = @ \ {t}, !.at[t] = After(t)]
    /\ MutexFrame

(***************************************************************************)
(* Init: the state DHT::new leaves, before run_event_loop is polled.       *)
(***************************************************************************)
InitNew(ids, sources, ros, secrets) ==
    /\ \E id \in ids, source \in sources :
        /\ ip4_source = source
        /\ \E best \in get_best_ipv4(source) :
            /\ our_id \in DHT_new_our_id(id, best)
            /\ last = [NoOp EXCEPT !.op = "new", !.id = id, !.best = best]
    /\ buckets = set_id(NodeStorage_new, our_id)
    /\ peer_storage = PeerStorage_new
    /\ \E secret \in secrets :
        /\ token_secret = secret
        /\ old_token_secret = secret
    /\ read_only \in ros
    /\ subscribers = <<>>
    /\ pending = {}
    /\ replies = {}
    /\ op = NoCall
    /\ now = 0
    /\ tasks = [t \in Tasks |-> "Running"]
    /\ shutdown = FALSE
    /\ result = NoneV
    /\ tracked = NoneV
    /\ mutex = NoMutex
    /\ find_node_round = NoneV

\* a node built with an Id of the caller and an address source without votes
InitWith(ids, ros, secrets) == InitNew({Some(id) : id \in ids}, {{}}, ros, secrets)

(***************************************************************************)
(* One iteration of the loop of accept_incoming_packets on a datagram      *)
(* (msg, addr) that recv_from returned.                                    *)
(***************************************************************************)
\* a wrong variant: a datagram from port 0 is let through
passes_filters_any_port(received, addr, env) ==
    ~IsSome(received.err) /\ ~env.throttled

\* the datagram was received, its source IP is not throttled and its source
\* port is not 0
passes_filters(received, addr, env) ==
    ~IsSome(received.err) /\ ~env.throttled /\ addr.port # 0

\* a wrong variant: a read-only node handles requests too
responds_read_only(passed, ro) == passed

\* if !read_only { self.accept_single_packet(..) }
responds(passed, ro) == passed /\ ~ro

accept_iteration(msg, addr, env) ==
    LET received == recv_from(msg, addr)
        passed == passes_filters(received, addr, env)
        h == IF ~responds(passed, read_only)
             THEN [buckets |-> buckets, peer_storage |-> peer_storage,
                   sent |-> <<>>, err |-> received.err]
             ELSE accept_single_packet(msg, addr, env)
        notify == passed /\ ~IsSome(h.err)
    IN  [pending |-> received.pending,
         replies |-> received.replies,
         buckets |-> h.buckets,
         peer_storage |-> h.peer_storage,
         passed |-> passed,
         dispatched |-> responds(passed, read_only),
         sent |-> h.sent,
         err |-> h.err,
         offered |-> IF notify
                     THEN Some([k \in 1..Len(subscribers) |->
                                    try_send(subscribers[k], msg)])
                     ELSE NoneV,
         subscribers |-> IF notify
                         THEN send_packet_to_subscribers(subscribers, msg)
                         ELSE subscribers]

\* a wrong variant: only a parse error is survived
Recoverable_parse_only(err) == err = "PacketParseError"

\* the accept task goes on after these errors and ends with any other
Recoverable(err) == err \in {"PacketParseError", "ConntrackError"}

accept_task_after(err) ==
    IF IsSome(err) /\ ~Recoverable(Unwrap(err))
    THEN [tasks EXCEPT !["accept_incoming_packets"] = Unwrap(err)]
    ELSE tasks

\* history: a get_peers reply may start the tracking of its token
TrackIssued(sent, track) ==
    IF track /\ ~IsSome(tracked) /\ sent # <<>> /\ sent[1].msg.kind = "GetPeersResponse"
    THEN Some([addr |-> sent[1].to, token |-> sent[1].msg.token, rotations |-> 0])
    ELSE tracked

AcceptPacket(msg, addr, env) ==
    /\ Running("accept_incoming_packets")
    /\ env.samples \in
            IF msg.message_type = "Request" /\ msg.kind = "sample_infohashes"
            THEN partial_shuffle(PeerStorage_get_info_hashes(peer_storage),
                                 max_sample_response)
            ELSE {<<>>}
    /\ \E o \in {accept_iteration(msg, addr, env)} :
           /\ pending' = o.pending
           /\ replies' = o.replies
           /\ buckets' = o.buckets
           /\ peer_storage' = o.peer_storage
           /\ subscribers' = o.subscribers
           /\ tasks' = accept_task_after(o.err)
           /\ result' = run_event_loop(accept_task_after(o.err))
           /\ last' = [NoOp EXCEPT !.op = "accept", !.msg = msg, !.addr = addr,
                                   !.time = now, !.passed = o.passed,
                                   !.dispatched = o.dispatched, !.sent = o.sent,
                                   !.err = o.err, !.offered = o.offered,
                                   !.subscribers = Len(subscribers),
                                   !.throttled = env.throttled]
           /\ tracked' = TrackIssued(o.sent, env.track)
    /\ UNCHANGED <<our_id, token_secret, old_token_secret, read_only, ip4_source,
                   now, shutdown, op, mutex, find_node_round>>

\* subscribe: a new queue; the caller keeps its receiving end
Subscribe ==
    /\ Len(subscribers) < MaxSubscribers
    /\ subscribers' = Append(subscribers, [queue |-> <<>>, closed |-> FALSE,
                                           taken |-> FALSE])
    /\ last' = [NoOp EXCEPT !.op = "subscribe", !.time = now]
    /\ UNCHANGED <<our_id, buckets, peer_storage, token_secret, old_token_secret,
                   read_only, ip4_source, pending, replies, now, loop_vars,
                   tracked, op>>

\* the holder of a receiving end drops it
DropReceiver(k) ==
    /\ k \in 1..Len(subscribers)
    /\ ~subscribers[k].closed
    /\ subscribers' = [subscribers EXCEPT ![k].closed = TRUE]
    /\ last' = [NoOp EXCEPT !.op = "drop_receiver", !.time = now]
    /\ UNCHANGED <<our_id, buckets, peer_storage, token_secret, old_token_secret,
                   read_only, ip4_source, pending, replies, now, loop_vars,
                   tracked, op>>

\* the holder of a receiving end takes the oldest event of the queue and
\* then reads the counts of the routing table (history: what it read, and
\* whether this was the first event it took)
ReceiverRecv(k) ==
    /\ k \in 1..Len(subscribers)
    /\ ~subscribers[k].closed
    /\ subscribers[k].queue # <<>>
    /\ subscribers' = [subscribers EXCEPT ![k].queue = Tail(@), ![k].taken = TRUE]
    /\ last' = [NoOp EXCEPT !.op = "receiver_recv", !.time = now,
                            !.msg = Head(subscribers[k].queue),
                            !.count = count(buckets),
                            !.first = ~subscribers[k].taken]
    /\ UNCHANGED <<our_id, buckets, peer_storage, token_secret, old_token_secret,
                   read_only, ip4_source, pending, replies, now, loop_vars,
                   tracked, op>>

\* recv_from returns an error instead of a datagram
RecvError(err) ==
    /\ Running("accept_incoming_packets")
    /\ tasks' = accept_task_after(Some(err))
    /\ result' = run_event_loop(accept_task_after(Some(err)))
    /\ last' = [NoOp EXCEPT !.op = "recv_error", !.time = now, !.err = Some(err)]
    /\ UNCHANGED <<state_vars, now, shutdown, tracked, op, mutex, find_node_round>>

(***************************************************************************)
(* periodic_token_rotation: one rotation (rotate_token_secrets).           *)
(***************************************************************************)
rotate_token_secrets(new_token_secret) ==
    /\ old_token_secret' = token_secret
    /\ token_secret' = new_token_secret

Rotated(t) ==
    IF IsSome(t)
    THEN Some([Unwrap(t) EXCEPT !.rotations = Min(@ + 1, 2)])
    ELSE t

TokenRotation ==
    /\ Running("periodic_token_rotation")
    /\ \E new_token_secret \in make_token_secret(token_secret_size) :
        rotate_token_secrets(new_token_secret)
    /\ last' = [NoOp EXCEPT !.op = "rotate", !.time = now]
    /\ tracked' = Rotated(tracked)
    /\ UNCHANGED <<our_id, buckets, peer_storage, read_only, subscribers, ip4_source,
                   pending, replies, now, loop_vars, op>>

\* the clock advances
Tick ==
    /\ now < MaxNow
    /\ now' = now + 1
    /\ UNCHANGED <<state_vars, loop_vars, last, tracked, op>>

(***************************************************************************)
(* Outbound requests and their responses.                                  *)
(***************************************************************************)
\* ping_internal: the ping is built from the state and handed to the
\* socket, which keeps a reply slot for it; the caller does not wait
PingInternal(target, tid) ==
    /\ ~IsSome(result)
    /\ FreshTid(tid)
    /\ pending' = pending \cup {Slot(target, tid)}
    /\ last' = [NoOp EXCEPT !.op = "ping_internal", !.addr = target, !.time = now,
                            !.msg = new_ping_request(tid, our_id, Some(read_only))]
    /\ UNCHANGED <<our_id, buckets, peer_storage, token_secret, old_token_secret,
                   read_only, subscribers, ip4_source, replies, now, loop_vars,
                   tracked, op>>

ip4_vote_helper(source, addr, msg) ==
    IF IsSome(msg.requester_ip)
    THEN add_vote(source, addr.ip, Unwrap(msg.requester_ip).ip)
    ELSE source

\* a wrong variant: the nodes a response lists are taken as verified
RECURSIVE add_seen_nodes_verified(_, _)
add_seen_nodes_verified(b, nodes) ==
    IF nodes = <<>> THEN b
    ELSE add_seen_nodes_verified(
            IF is_valid_for_ip(Head(nodes).id, Head(nodes).address.ip)
            THEN add_or_update(b, Head(nodes), TRUE) ELSE b,
            Tail(nodes))

\* the nodes of a find_node response are upserted unverified, those with an
\* Id valid for their IP
RECURSIVE add_seen_nodes(_, _)
add_seen_nodes(b, nodes) ==
    IF nodes = <<>> THEN b
    ELSE add_seen_nodes(
            IF is_valid_for_ip(Head(nodes).id, Head(nodes).address.ip)
            THEN add_or_update(b, Head(nodes), FALSE) ELSE b,
            Tail(nodes))

\* a wrong variant: the responder's Id is not checked against its IP
handle_response_no_id_check(reply, target) ==
    IF reply.message_type # "Response"
    THEN [ip4_source |-> ip4_source, buckets |-> buckets, result |-> "GeneralError"]
    ELSE
    LET their_id == Unwrap(get_author_id(reply))
        b == add_or_update(buckets, Node_new(their_id, target), TRUE)
    IN  [ip4_source |-> ip4_vote_helper(ip4_source, target, reply),
         buckets |-> IF reply.kind = "FindNodeResponse"
                     THEN add_seen_nodes(b, reply.nodes) ELSE b,
         result |-> "Ok"]

\* a wrong variant: whatever is in the slot is handed to the caller as Ok
handle_response_any_is_ok(reply, target) ==
    [ip4_source |-> ip4_source, buckets |-> buckets, result |-> "Ok"]

\* common_send_and_handle_response, from the reply on: what it does to the
\* state and what it hands to its caller ("Ok" stands for Ok(reply))
handle_response(reply, target) ==
    IF reply.message_type # "Response"
    THEN [ip4_source |-> ip4_source, buckets |-> buckets, result |-> "GeneralError"]
    ELSE
    LET their_id == Unwrap(get_author_id(reply))
        id_is_valid == is_valid_for_ip(their_id, target.ip)
        b == IF id_is_valid
             THEN add_or_update(buckets, Node_new(their_id, target), TRUE)
             ELSE buckets
    IN  [ip4_source |-> IF id_is_valid THEN ip4_vote_helper(ip4_source, target, reply)
                        ELSE ip4_source,
         buckets |-> IF reply.kind = "FindNodeResponse"
                     THEN add_seen_nodes(b, reply.nodes) ELSE b,
         result |-> "Ok"]

\* a request to dest waits for its reply, or its reply for its waiter
InFlight(dest) ==
    \/ \E slot \in pending : slot.dest = dest
    \/ \E r \in replies : r.slot.dest = dest

\* the reply slots the user's task waits on
OpSlots == {t.slot : t \in op.todos}

\* the task spawned by ping_internal takes the reply out of its slot and
\* handles it
HandleResponse(reply, target) ==
    /\ ~IsSome(result)
    /\ \E r \in replies :
        /\ r.reply = reply
        /\ r.slot.dest = target
        /\ r.slot \notin OpSlots
        /\ replies' = replies \ {r}
    /\ \E o \in {handle_response(reply, target)} :
           /\ buckets' = o.buckets
           /\ ip4_source' = o.ip4_source
           /\ last' = [NoOp EXCEPT !.op = "response", !.addr = target, !.time = now,
                                   !.msg = reply, !.err = IF o.result = "Ok" THEN NoneV
                                                          ELSE Some(o.result)]
    /\ UNCHANGED <<our_id, peer_storage, token_secret, old_token_secret, read_only,
                   subscribers, pending, now, loop_vars, tracked, op>>

\* the task spawned by ping_internal is given 5 seconds: when they are over
\* it is dropped and its reply slot with it
PingExpired(target) ==
    /\ ~IsSome(result)
    /\ \E slot \in pending \ OpSlots :
        /\ slot.dest = target
        /\ pending' = pending \ {slot}
    /\ last' = [NoOp EXCEPT !.op = "ping_expired", !.addr = target, !.time = now]
    /\ UNCHANGED <<our_id, buckets, peer_storage, token_secret, old_token_secret,
                   read_only, subscribers, ip4_source, replies, now, loop_vars,
                   tracked, op>>

(***************************************************************************)
(* send_request, called by the user's task.  op holds the call: the slot   *)
(* it waits on (todos), its timeout and the time it started, and, once it  *)
(* has returned, its result; slots and ended record the reply slots the    *)
(* call was given and the ways in which it ended.                          *)
(***************************************************************************)
\* tokio::time::timeout: the timer of a call started at `started` has fired
\* at time t
timeout_elapsed(timeout, started, t) ==
    IsSome(timeout) /\ t >= started + Unwrap(timeout)

\* a wrong variant: the call returns and the request stays in flight
send_request_timed_out_keeps_slot(call, slots) ==
    [op |-> [call EXCEPT !.pc = "done", !.todos = {},
                         !.result = Some("TimeoutError"),
                         !.ended = @ \cup {"timer"}],
     pending |-> slots]

\* send_request, the timer fired first: the future that waits for the reply
\* is dropped, its reply slot with it, and the caller gets a TimeoutError
send_request_timed_out(call, slots) ==
    [op |-> [call EXCEPT !.pc = "done", !.todos = {},
                         !.result = Some("TimeoutError"),
                         !.ended = @ \cup {"timer"}],
     pending |-> slots \ {t.slot : t \in call.todos}]

\* a wrong variant: any message is sent
is_request_any(msg) == TRUE

\* matches!(msg.message_type, packets::MessageType::Request(_))
is_request(msg) == msg.message_type = "Request"

\* send_request(req, dest, dest_id, timeout): a message that is no request
\* and a failure of send_to end the call at once; otherwise the request,
\* stamped with the transaction id tid, is in flight and the call waits
SendRequest(req, dest, dest_id, timeout, tid, send_result) ==
    /\ ~IsSome(result)
    /\ op.pc \in {"idle", "done"}
    /\ FreshTid(tid)
    /\ LET call == [NoCall EXCEPT !.kind = "send_request", !.timeout = timeout,
                                  !.started = now]
           slot == SlotFor(dest, dest_id, tid)
       IN  IF ~is_request(req) \/ send_result # "Ok"
           THEN /\ op' = [call EXCEPT !.pc = "done",
                                      !.result = Some(IF ~is_request(req)
                                                      THEN "GeneralError"
                                                      ELSE send_result)]
                /\ UNCHANGED pending
           ELSE /\ op' = [call EXCEPT !.pc = "wait", !.slots = {slot},
                                      !.todos = {[slot |-> slot, dest |-> dest]}]
                /\ pending' = pending \cup {slot}
    /\ last' = [NoOp EXCEPT !.op = "send_request", !.addr = dest, !.time = now,
                            !.msg = [req EXCEPT !.transaction_id = tid]]
    /\ UNCHANGED <<our_id, buckets, peer_storage, token_secret, old_token_secret,
                   read_only, subscribers, ip4_source, replies, now, loop_vars,
                   tracked>>

\* the reply is in the slot: the call takes it, handles it and returns
SendRequestReply ==
    /\ op.kind = "send_request"
    /\ op.pc = "wait"
    /\ \E t \in op.todos, r \in replies :
        /\ r.slot = t.slot
        /\ replies' = replies \ {r}
        /\ \E o \in {handle_response(r.reply, t.dest)} :
               /\ buckets' = o.buckets
               /\ ip4_source' = o.ip4_source
               /\ op' = [op EXCEPT !.pc = "done", !.todos = {},
                                   !.result = Some(o.result),
                                   !.ended = @ \cup {"reply"}]
               /\ last' = [NoOp EXCEPT !.op = "send_request_reply", !.addr = t.dest,
                                       !.time = now, !.msg = r.reply,
                                       !.err = IF o.result = "Ok" THEN NoneV
                                               ELSE Some(o.result)]
    /\ UNCHANGED <<our_id, peer_storage, token_secret, old_token_secret, read_only,
                   subscribers, pending, now, loop_vars, tracked>>

\* the timer fires while no reply is in the slot
SendRequestTimeout ==
    /\ op.kind = "send_request"
    /\ op.pc = "wait"
    /\ timeout_elapsed(op.timeout, op.started, now)
    /\ \A t \in op.todos : t.slot \in pending
    /\ \E o \in {send_request_timed_out(op, pending)} :
           /\ op' = o.op
           /\ pending' = o.pending
    /\ last' = [NoOp EXCEPT !.op = "send_request_timeout", !.time = now,
                            !.err = Some("TimeoutError")]
    /\ UNCHANGED <<our_id, buckets, peer_storage, token_secret, old_token_secret,
                   read_only, subscribers, ip4_source, replies, now, loop_vars,
                   tracked>>

\* the socket gives the slot up: the channel of the call is closed and the
\* call returns a TimeoutError ("Response channel was cleaned up")
SlotExpired ==
    /\ op.kind = "send_request"
    /\ op.pc = "wait"
    /\ \E t \in op.todos :
        /\ t.slot \in pending
        /\ pending' = pending \ {t.slot}
    /\ op' = [op EXCEPT !.pc = "done", !.todos = {},
                        !.result = Some("TimeoutError"),
                        !.ended = @ \cup {"cleaned"}]
    /\ last' = [NoOp EXCEPT !.op = "slot_expired", !.time = now,
                            !.err = Some("TimeoutError")]
    /\ UNCHANGED <<our_id, buckets, peer_storage, token_secret, old_token_secret,
                   read_only, subscribers, ip4_source, replies, now, loop_vars,
                   tracked>>

(***************************************************************************)
(* operations.rs: find_node, get_peers and announce_peer, called by the    *)
(* user's task.  op holds the call: its kind and target, the Buckets of    *)
(* the lookup (a set of wrappers; with the few nodes of the model no       *)
(* bucket of 8 overflows), best_ids, the requests of the round that are    *)
(* not over (todos), unique_peers, responders, to_ret and, at the end, the *)
(* result.  pc is where the task waits: "rpcs" (todos.next), "sleep" (a    *)
(* sleep of the loop), "announce" (todos.next of announce_peer), "done".   *)
(* heard, skipped and ended are history: the replies the lookup took, the  *)
(* nodes whose request failed and what ended the loop; announced is the    *)
(* announce requests announce_peer built, each with its destination.       *)
(***************************************************************************)
Buckets_contains(bs, id) == \E w \in bs : w.node.id = id

NodeWrapper_new(node) == [node |-> node, verified |-> FALSE]

\* for node_wrapper in dht.get_nodes() { if !buckets.contains(..) { add } }
seed(bs, wrappers) == bs \cup {w \in wrappers : ~Buckets_contains(bs, w.node.id)}

\* a wrong variant: the nodes of a response are not taken
add_candidates_none(bs, nodes) == bs

\* for node in nodes { if !buckets.contains(&node.id) { add } }
RECURSIVE add_candidates(_, _)
add_candidates(bs, nodes) ==
    IF nodes = <<>> THEN bs
    ELSE add_candidates(
            IF Buckets_contains(bs, Head(nodes).id) THEN bs
            ELSE bs \cup {NodeWrapper_new(Head(nodes))},
            Tail(nodes))

\* the transaction id the socket gives the request of a round to node, and
\* the one it gives the k-th announce
LookupTid(node) == node.id
AnnounceTidBase == 10
AnnounceTid(k) == AnnounceTidBase + k

\* the timeout of an operation, as its caller gave it, and the 5 seconds of
\* Duration::from_secs(5), in seconds
OverallTimeoutSecs == 30
RequestTimeoutSecs == 5

\* the timeout the operation hands to send_request with each request of its
\* loop: find_node gives 5 seconds, get_peers (and so the lookup of
\* announce_peer) the timeout of the whole operation
lookup_rpc_timeout(kind, timeout) ==
    IF kind = "find_node" THEN Some(RequestTimeoutSecs) ELSE Some(timeout)

\* the timeout announce_peer hands to send_request with each announce
announce_rpc_timeout == Some(RequestTimeoutSecs)

\* a request of an operation: its reply slot, the node it goes to, the
\* timeout send_request is given for it
Todo(node, tid, token, k) ==
    [slot |-> SlotFor(node.address, Some(node.id), tid), dest |-> node.address,
     node |-> node, token |-> token, k |-> k, timeout |-> NoneV]

\* one pass of the loop of find_node and get_peers, up to its first await:
\* a wrong variant: a pass that finds no node is not told from a pass that
\* finds the nodes of the pass before
lookup_round_no_bootstrap(call, wrappers) ==
    LET seeded == seed(call.buckets, wrappers)
        nearest == NearestFirst(seeded, call.target, K)
        best_ids_current == [k \in 1..Len(nearest) |-> nearest[k].id]
    IN  IF call.best_ids = best_ids_current
        THEN [call EXCEPT !.buckets = seeded, !.pc = "break"]
        ELSE [call EXCEPT !.buckets = seeded, !.pc = "rpcs",
                          !.best_ids = best_ids_current,
                          !.todos =
                            {[Todo(nearest[k], LookupTid(nearest[k]), <<>>, k) EXCEPT
                                !.timeout = lookup_rpc_timeout(call.kind, OverallTimeoutSecs)] :
                                    k \in 1..Len(nearest)}]

\* seed the Buckets from the verified nodes of the DHT, take the nearest,
\* then sleep when there are none, leave the loop when their Ids are those
\* of the round before, and send them the requests otherwise
lookup_round(call, wrappers) ==
    LET seeded == seed(call.buckets, wrappers)
        nearest == NearestFirst(seeded, call.target, K)
        best_ids_current == [k \in 1..Len(nearest) |-> nearest[k].id]
    IN  IF nearest = <<>>
        THEN [call EXCEPT !.buckets = seeded, !.pc = "sleep"]
        ELSE IF call.best_ids = best_ids_current
        THEN [call EXCEPT !.buckets = seeded, !.pc = "break"]
        ELSE [call EXCEPT !.buckets = seeded, !.pc = "rpcs",
                          !.best_ids = best_ids_current,
                          !.todos =
                            {[Todo(nearest[k], LookupTid(nearest[k]), <<>>, k) EXCEPT
                                !.timeout = lookup_rpc_timeout(call.kind, OverallTimeoutSecs)] :
                                    k \in 1..Len(nearest)}]

\* a wrong variant: the error of a request ends the operation with it
rpc_failed_propagates(call, t, err) ==
    [call EXCEPT !.todos = {}, !.pc = "done", !.skipped = @ \cup {t.node.id},
                 !.result = Some([status |-> err, nodes |-> <<>>,
                                  peers |-> <<>>, responders |-> <<>>])]

\* Err(e) => warn!(..): the error of a request is logged and the operation
\* goes on without that node
rpc_failed(call, t, err) ==
    [call EXCEPT !.todos = @ \ {t}, !.skipped = @ \cup {t.node.id}]

\* todos.next() has returned the outcome of the request t: Ok(reply) or an
\* error.  An error is logged; a reply of the kind asked for is merged; any
\* other reply is logged.  When it was the last of the round, the loop
\* sleeps before its next pass; announce_peer returns Ok(to_ret) after its
\* last announce
rpc_done(call, t, outcome, reply) ==
    LET base == [call EXCEPT !.todos = @ \ {t}]
        merged ==
            IF outcome # "Ok" THEN rpc_failed(call, t, outcome)
            ELSE IF call.pc = "announce" THEN [base EXCEPT !.to_ret = Append(@, t.node)]
            ELSE IF call.kind = "find_node"
            THEN IF reply.kind = "FindNodeResponse"
                 THEN [base EXCEPT !.buckets = add_candidates(@, reply.nodes),
                                   !.heard = @ \cup {[node |-> t.node, msg |-> reply]}]
                 ELSE base
            ELSE IF reply.kind = "GetPeersResponse"
                 THEN [base EXCEPT
                        !.responders = Append(@, [node |-> t.node, token |-> reply.token]),
                        !.buckets = IF reply.values = "Nodes"
                                    THEN add_candidates(@, reply.nodes) ELSE @,
                        !.unique_peers = IF reply.values = "Peers"
                                         THEN @ \cup Range(reply.peers) ELSE @,
                        !.heard = @ \cup {[node |-> t.node, msg |-> reply]}]
                 ELSE [base EXCEPT !.heard = @ \cup {[node |-> t.node, msg |-> reply]}]
    IN  IF merged.pc = "done" \/ merged.todos # {} THEN merged
        ELSE IF call.pc = "announce"
        THEN [merged EXCEPT !.pc = "done",
                            !.result = Some([status |-> "Ok", nodes |-> merged.to_ret,
                                             peers |-> <<>>, responders |-> <<>>])]
        ELSE [merged EXCEPT !.pc = "sleep"]

\* the sequences that list the elements of a set once each (a HashSet
\* collected into a Vec)
Orders(S) == {s \in [1..Cardinality(S) -> S] : Range(s) = S}

\* a wrong variant: the responders are left in the order of their replies
sort_unstable_by_distance_unsorted(responders, info_hash) == {responders}

\* sort_unstable_by of GetPeersResult::new: the responders in ascending XOR
\* distance to info_hash, those at the same distance in any order
RECURSIVE sort_unstable_by_distance(_, _)
sort_unstable_by_distance(responders, info_hash) ==
    IF responders = <<>> THEN {<<>>}
    ELSE UNION {
            {<<responders[i]>> \o rest :
                rest \in sort_unstable_by_distance(RemoveAt(responders, i), info_hash)} :
            i \in {j \in 1..Len(responders) :
                    \A k \in 1..Len(responders) :
                        xor(responders[j].node.id, info_hash)
                            <= xor(responders[k].node.id, info_hash)}}

\* GetPeersResult::new
GetPeersResult_new(info_hash, peers, responders) ==
    {[status |-> "Ok", nodes |-> <<>>, peers |-> peers, responders |-> sorted] :
        sorted \in sort_unstable_by_distance(responders, info_hash)}

\* a wrong variant: the sleep for a table without nodes is not timed
timeout_covers_requests_only(pc) == pc = "rpcs"

\* tokio::time::timeout(timeout, async { loop { .. } }): the awaits of the
\* loop that the overall timeout can end
timeout_covers(pc) == pc \in {"rpcs", "sleep"}

\* a wrong variant: every responder is announced to
take_all(s, n) == s

\* Iterator::take(n): the first n elements
take(s, n) == SubSeq(s, 1, Min(n, Len(s)))

\* the announce_peer request for a responder: announce_builder with the
\* token of the responder
announce_req(call, tid, token) ==
    new_announce_peer_request(tid, our_id, Some(read_only), call.target,
                              IF IsSome(call.port) THEN Unwrap(call.port) ELSE 0,
                              Some(~IsSome(call.port)), token)

\* after the loop, left by break or ended by the overall timeout: find_node
\* returns the nearest nodes of its Buckets, get_peers its GetPeersResult gp,
\* and announce_peer sends an announce to the first 8 responders of gp
lookup_finish(call, cause, gp) ==
    LET after == [call EXCEPT !.todos = {}, !.ended = {cause}]
        first == take(gp.responders, K)
    IN  IF call.kind = "find_node"
        THEN [after EXCEPT !.pc = "done",
                           !.result = Some([status |-> "Ok",
                                            nodes |-> NearestFirst(call.buckets, call.target, K),
                                            peers |-> <<>>, responders |-> <<>>])]
        ELSE IF call.kind = "get_peers"
        THEN [after EXCEPT !.pc = "done", !.result = Some(gp)]
        ELSE IF first = <<>>
        THEN [after EXCEPT !.pc = "done",
                           !.result = Some([status |-> "Ok", nodes |-> <<>>,
                                            peers |-> <<>>, responders |-> <<>>])]
        ELSE [after EXCEPT !.pc = "announce", !.responders = gp.responders,
                           !.todos =
                                {[Todo(first[k].node, AnnounceTid(k), first[k].token, k) EXCEPT
                                    !.timeout = announce_rpc_timeout] : k \in 1..Len(first)},
                           !.announced =
                                {[dest |-> first[k].node.address,
                                  dest_id |-> Some(first[k].node.id),
                                  req |-> announce_req(call, AnnounceTid(k), first[k].token)] :
                                    k \in 1..Len(first)}]

\* started_sending_time = Instant::now() when the requests of a round are
\* built; tokio::time::sleep(Duration::from_secs(1)) of a pass that found no
\* node, and the sleep that ends a round, over 1 s after the round's
\* requests were built (at once when that second is over)
sleep_until(call, c, t) ==
    [c EXCEPT !.sent_at = IF c.pc = "rpcs" /\ call.pc # "rpcs" THEN t ELSE @,
              !.wake_at = IF c.pc # "sleep" THEN @
                          ELSE IF call.pc # "rpcs" THEN t + 1
                          ELSE IF call.sent_at + 1 > t THEN call.sent_at + 1 ELSE t]

\* the call goes on as c: the reply slots of the requests it gave up are
\* dropped, those of its new requests are registered
OpBecomes(c, name) ==
    LET new_slots == {t.slot : t \in c.todos}
    IN  /\ op' = sleep_until(op, c, now)
        /\ pending' = (pending \ (OpSlots \ new_slots)) \cup (new_slots \ OpSlots)
        /\ replies' = {r \in replies : r.slot \notin OpSlots \ new_slots}
        /\ last' = [NoOp EXCEPT !.op = name]
        /\ UNCHANGED <<our_id, peer_storage, token_secret, old_token_secret,
                       read_only, subscribers, now, loop_vars, tracked>>

\* the loop is left: the results are put together
OpFinish(call, cause, name) ==
    \E peers \in Orders(call.unique_peers) :
        \E gp \in GetPeersResult_new(call.target, peers, call.responders) :
            OpBecomes(lookup_finish(call, cause, gp), name)

\* one pass of the loop from its top
OpPass(call, name) ==
    \E c \in {lookup_round(call, get_all_verified(buckets))} :
        IF c.pc = "break" THEN OpFinish(c, "same_nearest", name) ELSE OpBecomes(c, name)

\* find_node(dht, target, timeout), get_peers(dht, info_hash, timeout) and
\* announce_peer(dht, info_hash, port, timeout) are called
OpStart(kind, target, port) ==
    /\ op.pc = "idle"
    /\ OpPass([NoCall EXCEPT !.kind = kind, !.target = target, !.port = port], "op_start")
    /\ UNCHANGED <<buckets, ip4_source>>

\* the sleep of the loop is over
OpWake ==
    /\ op.kind \in {"find_node", "get_peers", "announce_peer"}
    /\ op.pc = "sleep"
    /\ OpPass(op, "op_wake")
    /\ UNCHANGED <<buckets, ip4_source>>

\* a request of the operation is answered: send_request handles the reply
\* and the operation takes its outcome
OpReply ==
    /\ op.kind \in {"find_node", "get_peers", "announce_peer"}
    /\ op.pc \in {"rpcs", "announce"}
    /\ \E t \in op.todos, r \in replies :
        /\ r.slot = t.slot
        /\ \E o \in {handle_response(r.reply, t.dest)} :
               /\ buckets' = o.buckets
               /\ ip4_source' = o.ip4_source
               /\ OpBecomes(rpc_done(op, t, o.result, r.reply), "op_reply")

\* a request of the operation ends with an error: its timeout is over, the
\* socket gave its channel up, or the request could not be sent
OpRpcError(err) ==
    /\ op.kind \in {"find_node", "get_peers", "announce_peer"}
    /\ op.pc \in {"rpcs", "announce"}
    /\ \E t \in op.todos :
        /\ t.slot \in pending
        /\ OpBecomes(rpc_done(op, t, err, NoMsg), "op_rpc_error")
    /\ UNCHANGED <<buckets, ip4_source>>

\* the overall timeout is over while the loop waits
OpTimeout ==
    /\ op.kind \in {"find_node", "get_peers", "announce_peer"}
    /\ timeout_covers(op.pc)
    /\ OpFinish(op, "timeout", "op_timeout")
    /\ UNCHANGED <<buckets, ip4_source>>

\* the operations with their timers: the call is made with a timeout, a
\* sleep ends when its time has come, and the overall timeout ends the loop
\* when the timeout has passed since the call
OpStartTimed(kind, target, timeout) ==
    /\ op.pc = "idle"
    /\ OpPass([NoCall EXCEPT !.kind = kind, !.target = target,
                             !.timeout = Some(timeout), !.started = now], "op_start")
    /\ UNCHANGED <<buckets, ip4_source>>

OpWakeTimed ==
    /\ now >= op.wake_at
    /\ OpWake

OpTimeoutTimed ==
    /\ timeout_elapsed(op.timeout, op.started, now)
    /\ OpTimeout

(***************************************************************************)
(* The rest of the event loop.                                             *)
(***************************************************************************)
\* a wrong variant: the Id is replaced whenever there is a best address
ip4_replaces_id_always(id, best) == IsSome(best)

\* periodic_ip4_maintenance: whether the round replaces the Id
ip4_replaces_id(id, best) == IsSome(best) /\ ~is_valid_for_ip(id, Unwrap(best))

\* periodic_ip4_maintenance: one round
Ip4Maintenance ==
    /\ Running("periodic_ip4_maintenance")
    /\ ip4_source' = decay(ip4_source)
    /\ \E best \in get_best_ipv4(decay(ip4_source)) :
        /\ IF ip4_replaces_id(our_id, best)
           THEN \E new_id \in from_ip(Unwrap(best)) :
                    /\ our_id' = new_id
                    /\ buckets' = set_id(buckets, new_id)
           ELSE UNCHANGED <<our_id, buckets>>
        /\ last' = [NoOp EXCEPT !.op = "ip4_maintenance", !.time = now,
                                !.id = Some(our_id), !.best = best]
    /\ UNCHANGED <<peer_storage, token_secret, old_token_secret, read_only,
                   subscribers, pending, replies, now, loop_vars, tracked, op>>

\* ping_routers: each router is pinged (ping_internal), then the future ends
\* well; ping_internal hands no error back
PingRouters(routers, tids) ==
    /\ Running("ping_routers")
    /\ \A r \in routers : FreshTid(tids[r])
    /\ \A r1, r2 \in routers : tids[r1] = tids[r2] => r1 = r2
    /\ pending' = pending \cup {Slot(r, tids[r]) : r \in routers}
    /\ tasks' = [tasks EXCEPT !["ping_routers"] = "Ok"]
    /\ result' = run_event_loop([tasks EXCEPT !["ping_routers"] = "Ok"])
    /\ last' = [NoOp EXCEPT !.op = "ping_routers", !.time = now]
    /\ UNCHANGED <<our_id, buckets, peer_storage, token_secret, old_token_secret,
                   read_only, subscribers, ip4_source, replies, now, shutdown,
                   tracked, op, mutex, find_node_round>>

\* the owner of the Shutdown token signals it
SignalShutdown ==
    /\ ~shutdown
    /\ shutdown' = TRUE
    /\ last' = [NoOp EXCEPT !.op = "signal_shutdown", !.time = now]
    /\ UNCHANGED <<state_vars, now, tasks, result, tracked, op, mutex, find_node_round>>

\* the last future of the join: watch() is over once shutdown is signalled,
\* and the future ends with ShutdownError
ShutdownWatch ==
    /\ Running("shutdown_watch")
    /\ shutdown
    /\ tasks' = [tasks EXCEPT !["shutdown_watch"] = "ShutdownError"]
    /\ result' = run_event_loop([tasks EXCEPT !["shutdown_watch"] = "ShutdownError"])
    /\ last' = [NoOp EXCEPT !.op = "shutdown_watch", !.time = now]
    /\ UNCHANGED <<state_vars, now, shutdown, tracked, op, mutex, find_node_round>>

(***************************************************************************)
(* Inputs.                                                                 *)
(***************************************************************************)
EnvOk(track) ==
    [throttled |-> FALSE, send_result |-> "Ok", samples |-> <<>>, track |-> track]

\* one of the secrets make_token_secret can return
OneSecret == [k \in 1..token_secret_size |-> 17]

\* the tokens the node can have issued to addrs, and one it cannot have
TokensFor(addrs) ==
    {calculate_token(a, secret) :
        a \in addrs, secret \in make_token_secret(token_secret_size)}
        \cup {<<0, 0, 0, 0>>}

TokAddrs == {SocketAddr(LOCALHOST, 2014), SocketAddr(PublicIp, 2014)}

TokRequests ==
    {new_get_peers_request(7, 1, NoneV, 3)}
        \cup {new_announce_peer_request(7, 1, NoneV, 3, 1234, NoneV, token) :
                token \in TokensFor(TokAddrs)}

(***************************************************************************)
(* SpecTok: get_peers and announce_peer requests from two addresses,       *)
(* interleaved with token rotations.                                       *)
(***************************************************************************)
InitTok == InitWith({0}, {FALSE}, make_token_secret(token_secret_size))

NextTok ==
    \/ \E msg \in TokRequests, addr \in TokAddrs, track \in BOOLEAN :
            AcceptPacket(msg, addr, EnvOk(track))
    \/ TokenRotation

SpecTok == InitTok /\ [][NextTok]_vars

(***************************************************************************)
(* Claims on tokens.                                                       *)
(***************************************************************************)
\* the last operation handled an announce_peer request
AnnounceHandled ==
    /\ last.op = "accept"
    /\ last.dispatched
    /\ last.msg.message_type = "Request"
    /\ last.msg.kind = "announce_peer"

\* the announce carried the tracked token and came from the address it was
\* issued to
AnnounceOfTracked ==
    /\ AnnounceHandled
    /\ IsSome(tracked)
    /\ last.addr = Unwrap(tracked).addr
    /\ last.msg.token = Unwrap(tracked).token

\* C1: an announce_peer from A with the token a get_peers reply issued to A
\* is accepted (answered) when at most one rotation happened since the token
\* was issued, and rejected (not answered) when two or more happened.
C1_IssuedTokenLifetime ==
    AnnounceOfTracked =>
        /\ Unwrap(tracked).rotations <= 1 => last.sent # <<>>
        /\ Unwrap(tracked).rotations >= 2 => last.sent = <<>>

\* C2: an announce_peer whose token matches neither secret is rejected: no
\* reply is sent and PeerStorage is left unchanged.
C2_BadTokenRejected ==
    [][(/\ last'.op = "accept"
        /\ now' = now
        /\ last'.msg.message_type = "Request"
        /\ last'.msg.kind = "announce_peer"
        /\ last'.msg.token # calculate_token(last'.addr, token_secret)
        /\ last'.msg.token # calculate_token(last'.addr, old_token_secret))
       => (last'.sent = <<>> /\ peer_storage' = peer_storage)]_vars

\* C2 witness: an announce with a token of neither secret was handled by a
\* node that already stores a peer
C2_Witness ==
    /\ AnnounceHandled
    /\ last.msg.token # calculate_token(last.addr, token_secret)
    /\ last.msg.token # calculate_token(last.addr, old_token_secret)
    /\ peer_storage # <<>>
    /\ token_secret # old_token_secret

\* C9: each rotation sets previous to the value current had and sets current
\* to a secret different from previous; both secrets always have length
\* token_secret_size.
C9_Rotation ==
    /\ [](Len(token_secret) = token_secret_size
            /\ Len(old_token_secret) = token_secret_size)
    /\ [][TokenRotation =>
            (old_token_secret' = token_secret /\ token_secret' # old_token_secret')]_vars

(***************************************************************************)
(* SpecPeers: announce_peer and get_peers requests for one info-hash from  *)
(* two addresses, with and without implied_port, while the clock advances  *)
(* and one node answers our pings.                                         *)
(***************************************************************************)
PeerAddrs == {SocketAddr(LOCALHOST, 2014), SocketAddr(PublicIp, 2015)}

\* a node whose Id is valid for its address
Responder == SocketAddr(PublicIp, 6881)
ResponderId == 2
OurAddr == SocketAddr(OtherIp, 6881)

InitPeers == InitWith({0}, {FALSE}, {OneSecret})

NextPeers ==
    \/ \E addr \in PeerAddrs, info_hash \in {3, 9} :
            AcceptPacket(new_get_peers_request(7, 1, NoneV, info_hash), addr, EnvOk(FALSE))
    \/ \E addr \in PeerAddrs, implied_port \in {NoneV, Some(TRUE), Some(FALSE)} :
            AcceptPacket(new_announce_peer_request(8, 1, NoneV, 3, 1234, implied_port,
                            calculate_token(addr, token_secret)),
                         addr, EnvOk(FALSE))
    \/ PingInternal(Responder, 1)
    \/ AcceptPacket(new_ping_response(ResponderId, 1, OurAddr), Responder, EnvOk(FALSE))
    \/ HandleResponse(new_ping_response(ResponderId, 1, OurAddr), Responder)
    \/ Tick

SpecPeers == InitPeers /\ [][NextPeers]_vars

(***************************************************************************)
(* Claims on announce_peer and get_peers.                                  *)
(***************************************************************************)
\* the last operation handled a request of this kind and answered it
Answered(kind) ==
    /\ last.op = "accept"
    /\ last.dispatched
    /\ last.msg.message_type = "Request"
    /\ last.msg.kind = kind
    /\ last.sent # <<>>

\* the peers stored for info_hash, oldest first
StoredPeers(info_hash) ==
    IF IndexOfHash(peer_storage, info_hash) = 0 THEN <<>>
    ELSE peer_storage[IndexOfHash(peer_storage, info_hash)].peers

\* C3: after an accepted announce_peer(H, port p, token) from A (implied_port
\* not set to true), the get_peers(H) that follows while the announce is
\* newer than now - get_peers_freshness_secs is answered with peers, and when
\* H has no other peer stored the list is the one entry (A's IP, p).
C3_AnnounceThenGetPeers ==
    [][(/\ Answered("announce_peer")
        /\ last.msg.implied_port # Some(TRUE)
        /\ last'.op = "accept"
        /\ last'.dispatched
        /\ last'.msg.message_type = "Request"
        /\ last'.msg.kind = "get_peers"
        /\ last'.msg.target = last.msg.target
        /\ last'.sent # <<>>
        /\ now < last.time + get_peers_freshness_secs)
       => (/\ last'.sent[1].msg.values = "Peers"
           /\ Len(StoredPeers(last.msg.target)) = 1 =>
                last'.sent[1].msg.peers = <<SocketAddr(last.addr.ip, last.msg.port)>>)]_vars

\* C3 witness: a get_peers for H was answered, later than the announce but
\* within the freshness window, with the one peer stored: port 1234
C3_Witness ==
    /\ Answered("get_peers")
    /\ Len(StoredPeers(last.msg.target)) = 1
    /\ StoredPeers(last.msg.target)[1].last_updated < last.time
    /\ last.sent[1].msg.values = "Peers"
    /\ Len(last.sent[1].msg.peers) = 1
    /\ last.sent[1].msg.peers[1].port = 1234

\* the announce handled last carried a token of the current or previous secret
AnnounceAccepted ==
    /\ AnnounceHandled
    /\ \/ last.msg.token = calculate_token(last.addr, token_secret)
       \/ last.msg.token = calculate_token(last.addr, old_token_secret)

\* C4: an accepted announce_peer from addr stores for info_hash the peer
\* (addr.ip, addr.port) when implied_port is true and (addr.ip, arguments.port)
\* when it is false or absent, and is answered with a ping response.
C4_AnnounceStoresPeer ==
    AnnounceAccepted =>
        /\ StoredPeers(last.msg.target) # <<>>
        /\ LET peers == StoredPeers(last.msg.target)
           IN  peers[Len(peers)] =
                [addr |-> SocketAddr(last.addr.ip,
                            IF last.msg.implied_port = Some(TRUE)
                            THEN last.addr.port ELSE last.msg.port),
                 last_updated |-> last.time]
        /\ last.sent # <<>>
        /\ last.sent[1].to = last.addr
        /\ last.sent[1].msg.kind = "PingResponse"

\* C4 witness: an announce with implied_port true, whose port argument is not
\* the port it came from, was accepted
C4_Witness ==
    /\ AnnounceAccepted
    /\ last.msg.implied_port = Some(TRUE)
    /\ last.msg.port # last.addr.port
    /\ Len(StoredPeers(last.msg.target)) > 1

\* the peers stored for info_hash that are newer than t - get_peers_freshness_secs
FreshPeers(info_hash, t) ==
    {p \in Range(StoredPeers(info_hash)) : p.last_updated + get_peers_freshness_secs > t}

SampleHashes == 1..(max_torrents + 1)
SampleAddr == SocketAddr(LOCALHOST, 2014)

InitSample == InitWith({0}, {FALSE}, {OneSecret})

NextSample ==
    \/ \E info_hash \in SampleHashes :
            AcceptPacket(new_announce_peer_request(8, 1, NoneV, info_hash, 1234, NoneV,
                            calculate_token(SampleAddr, token_secret)),
                         SampleAddr, EnvOk(FALSE))
    \/ \E samples \in partial_shuffle(PeerStorage_get_info_hashes(peer_storage),
                                      max_sample_response) :
            AcceptPacket(new_sample_infohashes_request(9, 1, NoneV, 5), SampleAddr,
                         [EnvOk(FALSE) EXCEPT !.samples = samples])

SpecSample == InitSample /\ [][NextSample]_vars

\* C8: the reply to sample_infohashes has num equal to the number of
\* info-hashes stored, samples that are distinct stored info-hashes, as many
\* as min(max_sample_response, num), and interval min_sample_interval_secs;
\* with nothing stored num is 0 and samples is empty.
C8_SampleReply ==
    Answered("sample_infohashes") =>
        LET reply == last.sent[1].msg
            known == PeerStorage_get_info_hashes(peer_storage)
        IN  /\ reply.kind = "SampleInfoHashesResponse"
            /\ reply.num = Len(known)
            /\ Len(reply.samples) = Min(max_sample_response, Len(known))
            /\ \A i, j \in DOMAIN reply.samples :
                    reply.samples[i] = reply.samples[j] => i = j
            /\ Range(reply.samples) \subseteq Range(known)
            /\ reply.interval = min_sample_interval_secs
            /\ peer_storage = <<>> => (reply.num = 0 /\ reply.samples = <<>>)

\* C8 witness: a request was answered while more info-hashes were stored
\* than a reply may carry
C8_Witness ==
    /\ Answered("sample_infohashes")
    /\ last.sent[1].msg.num > max_sample_response
    /\ Len(last.sent[1].msg.samples) = max_sample_response

(***************************************************************************)
(* SpecReply: the five requests, under two transaction ids, from a node    *)
(* with a valid Id and from one with an invalid Id, while a node answers   *)
(* our pings, votes on our address and the local Id changes.               *)
(***************************************************************************)
ReplyRequesters ==
    {[id |-> 3, addr |-> SocketAddr(LOCALHOST, 2014)],
     [id |-> 12, addr |-> SocketAddr(PublicIp, 2015)]}

ReplyRequests(id, tid, token) ==
    {new_ping_request(tid, id, NoneV),
     new_find_node_request(tid, id, NoneV, 6),
     new_get_peers_request(tid, id, NoneV, 3),
     new_announce_peer_request(tid, id, NoneV, 3, 1234, NoneV, token),
     new_sample_infohashes_request(tid, id, NoneV, 6)}

InitReply == InitWith({0, 13}, {FALSE}, {OneSecret})

NextReply ==
    \/ \E r \in ReplyRequesters, tid \in {7, 8} :
        \E msg \in ReplyRequests(r.id, tid, calculate_token(r.addr, token_secret)) :
          \E samples \in partial_shuffle(PeerStorage_get_info_hashes(peer_storage),
                                         max_sample_response) :
            AcceptPacket(msg, r.addr,
                [EnvOk(FALSE) EXCEPT !.samples =
                    IF msg.kind = "sample_infohashes" THEN samples ELSE <<>>])
    \/ PingInternal(Responder, 1)
    \/ AcceptPacket(new_ping_response(ResponderId, 1, OurAddr), Responder, EnvOk(FALSE))
    \/ HandleResponse(new_ping_response(ResponderId, 1, OurAddr), Responder)
    \/ Ip4Maintenance

SpecReply == InitReply /\ [][NextReply]_vars

\* C5: every reply to a ping, find_node, get_peers, announce_peer or
\* sample_infohashes request goes to the requester and carries the
\* transaction id of the request, the local Id of the moment as responder id
\* and the requester's socket address as requester_ip.
C5_ReplyEcho ==
    (last.op = "accept" /\ last.sent # <<>>) =>
        /\ last.msg.message_type = "Request"
        /\ last.sent[1].to = last.addr
        /\ last.sent[1].msg.message_type = "Response"
        /\ last.sent[1].msg.transaction_id = last.msg.transaction_id
        /\ last.sent[1].msg.responder_id = our_id
        /\ last.sent[1].msg.requester_ip = Some(last.addr)

\* C5 witness: a request was answered after the local Id had changed
C5_Witness ==
    /\ Answered("ping")
    /\ our_id \notin {0, 13}
    /\ last.msg.transaction_id = 8

(***************************************************************************)
(* SpecNodes: find_node requests while the nodes we ping, one after the    *)
(* other, answer and become verified.                                      *)
(***************************************************************************)
NumResponders == 10

ResponderAddr(i) == SocketAddr(LOCALHOST, 7000 + i)

Verified(i) == [node |-> Node_new(i, ResponderAddr(i)), verified |-> TRUE] \in buckets.nodes

\* the requesters: a node we have pinged, one we have not, and one whose Id
\* is not valid for its address
NodeRequesters ==
    {[id |-> 3, addr |-> ResponderAddr(3)],
     [id |-> 14, addr |-> SocketAddr(LOCALHOST, 2014)],
     [id |-> 12, addr |-> SocketAddr(PublicIp, 2015)]}

InitNodes == InitWith({0}, {FALSE}, {OneSecret})

NextNodes ==
    \/ \E i \in 1..NumResponders :
        /\ \A j \in 1..(i - 1) : Verified(j)
        /\ ~Verified(i)
        /\ ~InFlight(ResponderAddr(i))
        /\ PingInternal(ResponderAddr(i), i)
    \/ \E i \in 1..NumResponders :
        AcceptPacket(new_ping_response(i, i, OurAddr), ResponderAddr(i), EnvOk(FALSE))
    \/ \E i \in 1..NumResponders :
        HandleResponse(new_ping_response(i, i, OurAddr), ResponderAddr(i))
    \/ \E r \in NodeRequesters, target \in {6, 9} :
        AcceptPacket(new_find_node_request(7, r.id, NoneV, target), r.addr, EnvOk(FALSE))

SpecNodes == InitNodes /\ [][NextNodes]_vars

\* C7: the reply to find_node from requester R carries at most 8 nodes, each
\* a verified entry of the routing table and none with R's Id, while R
\* itself (its Id being valid for its address) is in the routing table once
\* the request is handled.
C7_FindNodeReply ==
    Answered("find_node") =>
        LET reply == last.sent[1].msg
        IN  /\ reply.kind = "FindNodeResponse"
            /\ Len(reply.nodes) <= 8
            /\ \A k \in DOMAIN reply.nodes :
                /\ [node |-> reply.nodes[k], verified |-> TRUE] \in buckets.nodes
                /\ reply.nodes[k].id # last.msg.requester_id
            /\ is_valid_for_ip(last.msg.requester_id, last.addr.ip) =>
                    \E w \in buckets.nodes : w.node.id = last.msg.requester_id

\* C7 witness: the requester is a verified node of the routing table and
\* more than 8 other nodes are verified
C7_Witness ==
    /\ Answered("find_node")
    /\ \E w \in buckets.nodes : w.verified /\ w.node.id = last.msg.requester_id
    /\ Cardinality({w \in buckets.nodes :
            w.verified /\ w.node.id # last.msg.requester_id}) > 8
    /\ \E w \in buckets.nodes : ~w.verified
    /\ Len(last.sent[1].msg.nodes) = 8

(***************************************************************************)
(* SpecLoop: the event loop while pings arrive, the socket fails in one    *)
(* way or another, secrets rotate and the Shutdown token is signalled.     *)
(* SpecLoopFair adds that the future watching the token is polled once the *)
(* token is signalled, which wakes the join.                               *)
(***************************************************************************)
LoopAddr == SocketAddr(LOCALHOST, 2014)

InitLoop == InitWith({0}, {FALSE}, {OneSecret})

NextLoop ==
    \/ \E send_result \in {"Ok", "ConntrackError", "GeneralError"} :
            AcceptPacket(new_ping_request(7, 3, NoneV), LoopAddr,
                         [EnvOk(FALSE) EXCEPT !.send_result = send_result])
    \/ \E err \in ErrorKinds : RecvError(err)
    \/ PingRouters({Responder}, [r \in {Responder} |-> 1])
    \/ AcceptPacket(new_ping_response(ResponderId, 1, OurAddr), Responder, EnvOk(FALSE))
    \/ HandleResponse(new_ping_response(ResponderId, 1, OurAddr), Responder)
    \/ TokenRotation
    \/ Ip4Maintenance
    \/ SignalShutdown
    \/ ShutdownWatch

SpecLoop == InitLoop /\ [][NextLoop]_vars

SpecLoopFair == SpecLoop /\ WF_vars(ShutdownWatch)

\* a task that ended with an error
Failed(t) == tasks[t] \in ErrorKinds

\* C10 as stated: run_event_loop returns only when a task failed or Shutdown
\* is signalled; a return that comes once Shutdown is signalled is Ok(());
\* and when a task failed with an error other than ShutdownError that error
\* is what it returns.
C10_AsStated ==
    /\ [](IsSome(result) => (shutdown \/ \E t \in Tasks : Failed(t)))
    /\ [][(shutdown /\ ~IsSome(result) /\ IsSome(result')) => result' = Some("Ok")]_vars
    /\ [](\A t \in Tasks :
            (Failed(t) /\ tasks[t] # "ShutdownError") => result = Some(tasks[t]))

\* C10 amended: run_event_loop returns only when one of its futures ended
\* with an error, the future watching the Shutdown token being one that ends
\* (with ShutdownError) only once the token is signalled; it returns Ok(())
\* when that error is ShutdownError and the error itself otherwise, also
\* when Shutdown has been signalled by then; and once Shutdown is signalled
\* it eventually returns.
C10_EventLoop ==
    /\ [](IsSome(result) <=> \E t \in Tasks : Failed(t))
    /\ [](Failed("shutdown_watch") => shutdown)
    /\ [](\A t \in Tasks : Failed(t) =>
            result = Some(IF tasks[t] = "ShutdownError" THEN "Ok" ELSE tasks[t]))
    /\ shutdown ~> IsSome(result)

\* C10 witness: Shutdown was signalled and the loop has returned the error
\* of the accept task
C10_Witness ==
    /\ shutdown
    /\ result = Some("GeneralError")
    /\ tasks["accept_incoming_packets"] = "GeneralError"
    /\ tasks["ping_routers"] = "Ok"

(***************************************************************************)
(* SpecSubs: subscriptions are taken and dropped, events are taken out of  *)
(* the queues, and the accept task receives pings, from a port or from     *)
(* port 0, throttled or not, the reply to which is sent or not; the node   *)
(* is read-only or not.                                                    *)
(***************************************************************************)
SubAddr == SocketAddr(LOCALHOST, 2014)

InitSubs == InitWith({0}, {FALSE, TRUE}, {OneSecret})

NextSubs ==
    \/ Subscribe
    \/ \E k \in 1..MaxSubscribers : DropReceiver(k)
    \/ \E k \in 1..MaxSubscribers : ReceiverRecv(k)
    \/ \E send_result \in {"Ok", "ConntrackError"}, throttled \in BOOLEAN :
            AcceptPacket(new_ping_request(7, 3, NoneV), SubAddr,
                         [EnvOk(FALSE) EXCEPT !.send_result = send_result,
                                              !.throttled = throttled])
    \/ AcceptPacket(new_ping_request(7, 3, NoneV), SocketAddr(LOCALHOST, 0),
                    EnvOk(FALSE))

SpecSubs == InitSubs /\ [][NextSubs]_vars

\* C11: every datagram that the accept task received and that passed the
\* throttle and the port-0 filter was offered as an event to every
\* subscriber, read-only node or not, whatever the handler returned.
C11_EventForEveryDatagram ==
    (last.op = "accept" /\ last.passed) =>
        Len(IF IsSome(last.offered) THEN Unwrap(last.offered) ELSE <<>>)
            = last.subscribers

\* the subscriber at position k of the list is kept by the fan-out, and the
\* position it then has
KeptSubscriber(k) == ~subscribers[k].closed
PositionAfter(k) == Cardinality({j \in 1..k : KeptSubscriber(j)})

\* C12: on a fan-out, a subscriber whose receiver was dropped leaves the
\* list; every other one stays, in order, with the event added to its queue
\* when the queue holds fewer than 32 events and with its queue as it was
\* when it is full; however full the queues are, the accept task can take
\* its next datagram.
C12_FanOut ==
    /\ [][(last'.op = "accept" /\ IsSome(last'.offered)) =>
            /\ Len(subscribers') =
                    Cardinality({k \in 1..Len(subscribers) : KeptSubscriber(k)})
            /\ \A k \in 1..Len(subscribers) : KeptSubscriber(k) =>
                    subscribers'[PositionAfter(k)] =
                        IF Len(subscribers[k].queue) >= SubscriberCapacity
                        THEN subscribers[k]
                        ELSE [subscribers[k] EXCEPT !.queue = Append(@, last'.msg)]
          ]_vars
    /\ [](Running("accept_incoming_packets") =>
            ENABLED AcceptPacket(new_ping_request(7, 3, NoneV), SubAddr, EnvOk(FALSE)))

\* C12 witness: a fan-out found the queue of a subscriber full, and the
\* subscriber is still in the list with its 32 events
C12_Witness ==
    /\ last.op = "accept"
    /\ last.offered = Some(<<"Full">>)
    /\ Len(subscribers) = 1
    /\ Len(subscribers[1].queue) = SubscriberCapacity

(***************************************************************************)
(* SpecTwoNodes: node B, built with an Id of its own and a static address  *)
(* source, has node A as its only router.  B pings A at the start and in   *)
(* every round of periodic_router_ping; A answers each ping; the answers   *)
(* reach the accept task of B, which puts them in their reply slots and    *)
(* fans them out, and the tasks spawned by ping_internal take them from   *)
(* the slots.  A subscription is taken on B and its events are read.       *)
(***************************************************************************)
RouterA == SocketAddr(LOCALHOST, 2171)
RouterAId == 1
NodeB == SocketAddr(LOCALHOST, 2172)
NodeBId == 5
StaticSource == {[voter |-> LOCALHOST, ip |-> PublicIp, weight |-> VoteWeight]}
PingTids == {1}

InitTwoNodes == InitNew({Some(NodeBId)}, {StaticSource}, {FALSE}, {OneSecret})

NextTwoNodes ==
    \/ Subscribe
    \/ PingRouters({RouterA}, [r \in {RouterA} |-> 1])
    \/ \E tid \in PingTids :
        /\ tasks["ping_routers"] = "Ok"
        /\ PingInternal(RouterA, tid)
    \/ \E tid \in PingTids :
        AcceptPacket(new_ping_response(RouterAId, tid, NodeB), RouterA, EnvOk(FALSE))
    \/ \E tid \in PingTids :
        HandleResponse(new_ping_response(RouterAId, tid, NodeB), RouterA)
    \/ PingExpired(RouterA)
    \/ ReceiverRecv(1)

SpecTwoNodes == InitTwoNodes /\ [][NextTwoNodes]_vars

\* C13: when the subscriber of B takes its first event, the routing table
\* of B counts 0 unverified and 1 verified node.
C13_VerifiedBeforeEvent ==
    (last.op = "receiver_recv" /\ last.first) => last.count = <<0, 1>>

(***************************************************************************)
(* SpecSend: the user's task calls send_request towards one node, with and *)
(* without a timeout, while the event loop has a ping of its own in flight *)
(* to the same node.  The node answers with a ping response or a KRPC      *)
(* error, in time, late or never; the clock advances.                      *)
(***************************************************************************)
SendTid == 1
PingTid == 2
SendTimeout == 1

SendReplies(tid) == {new_ping_response(ResponderId, tid, OurAddr), new_error(tid)}

InitSend == InitWith({0}, {FALSE}, {OneSecret})

NextSend ==
    \/ \E req \in {new_ping_request(0, our_id, NoneV), new_ping_response(our_id, 0, Responder),
                     new_error(0)},
          dest_id \in {NoneV, Some(ResponderId)},
          timeout \in {NoneV, Some(SendTimeout)},
          send_result \in {"Ok", "GeneralError"} :
            SendRequest(req, Responder, dest_id, timeout, SendTid, send_result)
    \/ PingInternal(Responder, PingTid)
    \/ \E tid \in {SendTid, PingTid} : \E reply \in SendReplies(tid) :
            AcceptPacket(reply, Responder, EnvOk(FALSE))
    \/ \E reply \in SendReplies(PingTid) : HandleResponse(reply, Responder)
    \/ PingExpired(Responder)
    \/ SendRequestReply
    \/ SendRequestTimeout
    \/ SlotExpired
    \/ Tick

SpecSend == InitSend /\ [][NextSend]_vars

\* the call of send_request put a request in flight / has returned
InFlightCall == op.kind = "send_request" /\ op.slots # {}
Returned(call) == call.pc = "done"

\* C14: send_request with a timeout returns a TimeoutError when the timeout
\* is over and no reply has come: the timer ends the call exactly then; from
\* then on the reply slot of the request is neither in flight nor filled,
\* and a reply that comes later is dropped by the socket and reaches no waiter.
C14_TimeoutReclaimsSlot ==
    /\ []((InFlightCall /\ ~Returned(op)
            /\ timeout_elapsed(op.timeout, op.started, now)
            /\ op.slots \subseteq pending) => ENABLED SendRequestTimeout)
    /\ [][(last'.op = "send_request_timeout" /\ op' # op) =>
            /\ timeout_elapsed(op.timeout, op.started, now)
            /\ op.slots \subseteq pending
            /\ op'.result = Some("TimeoutError")]_vars
    /\ []((InFlightCall /\ Returned(op) /\ op.ended = {"timer"}) =>
            \A slot \in op.slots :
                /\ slot \notin pending
                /\ \A r \in replies : r.slot # slot)
    /\ [][(InFlightCall /\ Returned(op) /\ op.ended = {"timer"}
            /\ last'.op = "accept"
            /\ last'.msg.transaction_id = SendTid) =>
                /\ ~last'.passed
                /\ replies' = replies
                /\ op' = op]_vars

\* a reply to the request comes after the call has timed out
C14_Witness ==
    /\ InFlightCall /\ Returned(op) /\ op.ended = {"timer"}
    /\ op.result = Some("TimeoutError")
    /\ last.op = "accept"
    /\ last.msg = new_ping_response(ResponderId, SendTid, OurAddr)
    /\ last.err = Some("ConntrackError")

\* C15 as stated: a request in flight ends with its response delivered or
\* with a TimeoutError.
C15_AsStated ==
    (InFlightCall /\ Returned(op)) => op.result \in {Some("Ok"), Some("TimeoutError")}

\* C15, amended: a request in flight ends at most once, and in one of three
\* ways: its one reply is delivered and it is a response (Ok), its one reply
\* is delivered and it is a KRPC error (GeneralError), or no reply is
\* delivered (TimeoutError).  A datagram fills at most one reply slot, a
\* slot holds at most one reply, and a waiter takes the reply of its own
\* slot only.
C15_OneEnding ==
    /\ []((InFlightCall /\ ~Returned(op)) => (op.ended = {} /\ op.result = NoneV))
    /\ []((InFlightCall /\ Returned(op)) =>
            /\ Cardinality(op.ended) = 1
            /\ op.ended \subseteq {"timer", "cleaned"} => op.result = Some("TimeoutError")
            /\ op.ended = {"reply"} => op.result \in {Some("Ok"), Some("GeneralError")})
    /\ [][(last'.op = "send_request_reply" /\ op' # op) =>
            /\ op'.result = Some(IF last'.msg.message_type = "Response"
                                 THEN "Ok" ELSE "GeneralError")
            /\ \E r \in replies :
                /\ r.slot \in op.slots
                /\ r.reply = last'.msg
                /\ replies' = replies \ {r}]_vars
    /\ [][(last'.op = "response" /\ replies' # replies) =>
            \E r \in replies :
                /\ r.slot \notin op.slots
                /\ replies' = replies \ {r}]_vars
    /\ [][last'.op = "accept" =>
            /\ Cardinality(replies' \ replies) <= 1
            /\ Cardinality(pending \ pending') = Cardinality(replies' \ replies)
            /\ \A r \in replies' \ replies : r.slot \in pending /\ r.reply = last'.msg]_vars
    /\ [](\A r1, r2 \in replies : r1.slot = r2.slot => r1 = r2)

\* the response to the call's request is delivered to the call while the
\* ping to the same node is still in flight
C15_Witness ==
    /\ InFlightCall /\ Returned(op) /\ op.result = Some("Ok")
    /\ last.op = "send_request_reply"
    /\ Slot(Responder, PingTid) \in pending

(***************************************************************************)
(* SpecId: nodes built with and without an Id of the caller, over address  *)
(* sources with and without a best address.  Two nodes answer the pings of *)
(* the event loop and tell the node the address they see it at; the votes  *)
(* decay in periodic_ip4_maintenance, which may replace the local Id.      *)
(***************************************************************************)
IdVoters == {Responder, ResponderAddr(1)}
VoterId(dest) == IF dest = Responder THEN ResponderId ELSE 1
IdPingTid == 1
ClaimedIps == {PublicIp, OtherIp}
IdPong(dest, claimed) == new_ping_response(VoterId(dest), IdPingTid, SocketAddr(claimed, 6881))

InitId == InitNew({NoneV, Some(NodeBId)}, {{}, StaticSource}, {FALSE}, {OneSecret})

NextId ==
    \/ \E dest \in IdVoters : PingInternal(dest, IdPingTid)
    \/ \E dest \in IdVoters, claimed \in ClaimedIps :
            AcceptPacket(IdPong(dest, claimed), dest, EnvOk(FALSE))
    \/ \E dest \in IdVoters, claimed \in ClaimedIps :
            HandleResponse(IdPong(dest, claimed), dest)
    \/ \E dest \in IdVoters : PingExpired(dest)
    \/ Ip4Maintenance

SpecId == InitId /\ [][NextId]_vars

\* C16: after DHT::new the local Id is the Id of the caller when there is
\* one; otherwise an Id that Id::from_ip gives for the best IPv4 of the
\* address source when it has one; otherwise any (random) Id; and the routing
\* table has that Id as its own.
C16_LocalIdAtConstruction ==
    last.op = "new" =>
        /\ last.best \in get_best_ipv4(ip4_source)
        /\ IsSome(last.id) => our_id = Unwrap(last.id)
        /\ (~IsSome(last.id) /\ IsSome(last.best)) => our_id \in from_ip(Unwrap(last.best))
        /\ (~IsSome(last.id) /\ ~IsSome(last.best)) => our_id \in Ids
        /\ buckets.id = our_id

\* no Id of the caller, and the address source has a best address
C16_Witness ==
    /\ last.op = "new"
    /\ last.id = NoneV
    /\ last.best = Some(PublicIp)
    /\ is_valid_for_ip(our_id, PublicIp)

\* C17: after a round of periodic_ip4_maintenance in which the address
\* source has a best IPv4, the local Id is valid for it and is the Id of the
\* routing table; the local Id changes only in such a round, and only when
\* the Id held before it was not valid for that address.
C17_IdFollowsBestIp ==
    /\ []((last.op = "ip4_maintenance" /\ IsSome(last.best)) =>
            /\ is_valid_for_ip(our_id, Unwrap(last.best))
            /\ buckets.id = our_id)
    /\ [][our_id' # our_id =>
            /\ last'.op = "ip4_maintenance"
            /\ last'.id = Some(our_id)
            /\ IsSome(last'.best)
            /\ ~is_valid_for_ip(our_id, Unwrap(last'.best))
            /\ buckets'.id = our_id']_vars
    /\ [][buckets'.id # buckets.id => our_id' # our_id]_vars

\* a round has replaced the Id
C17_Witness ==
    /\ last.op = "ip4_maintenance"
    /\ IsSome(last.best)
    /\ last.id # Some(our_id)
    /\ buckets.nodes # {}

(***************************************************************************)
(* SpecOps: the user's task calls find_node, get_peers or announce_peer    *)
(* for a target on a node whose table is empty at first.  The event loop   *)
(* pings node 1 while the table is empty, and node 1 may answer.  The      *)
(* nodes 1 and 2 answer the requests of the operation as they like: with   *)
(* the nodes or the peers they know, with a reply of another kind, with an *)
(* error, or never.                                                        *)
(***************************************************************************)
OpTarget == 3
OpIds == {1, 2}
OpNode(i) == Node_new(i, ResponderAddr(i))
BootTid == 9
PeerP == SocketAddr(PublicIp, 1000)
PeerQ == SocketAddr(OtherIp, 2000)

\* the nodes node i knows, the peers it has stored and the token it gives
Knows(i) == IF i = 1 THEN <<OpNode(2)>> ELSE <<OpNode(1)>>
Stored(i) == IF i = 1 THEN <<PeerP>> ELSE <<PeerP, PeerQ>>
TokenOf(i) == <<i>>

OpRepliesOf(i) ==
    {new_find_node_response(i, LookupTid(OpNode(i)), OurAddr, Knows(i)),
     new_get_peers_response_nodes(i, LookupTid(OpNode(i)), OurAddr, TokenOf(i), Knows(i)),
     new_error(LookupTid(OpNode(i)))}
    \cup {new_get_peers_response_peers(i, LookupTid(OpNode(i)), OurAddr,
                                       TokenOf(i), Stored(i))}
    \cup {new_announce_peer_response(i, AnnounceTid(k), OurAddr) : k \in 1..Cardinality(OpIds)}

InitOps == InitWith({0}, {FALSE}, {OneSecret})

NextOps ==
    \/ \E kind \in {"find_node", "get_peers", "announce_peer"} :
            OpStart(kind, OpTarget, NoneV)
    \/ OpWake
    \/ OpReply
    \/ \E err \in {"TimeoutError", "GeneralError"} : OpRpcError(err)
    \/ OpTimeout
    \/ /\ get_all_verified(buckets) = {}
       /\ PingInternal(ResponderAddr(1), BootTid)
    \/ AcceptPacket(new_ping_response(1, BootTid, OurAddr), ResponderAddr(1), EnvOk(FALSE))
    \/ HandleResponse(new_ping_response(1, BootTid, OurAddr), ResponderAddr(1))
    \/ PingExpired(ResponderAddr(1))
    \/ \E i \in OpIds : \E reply \in OpRepliesOf(i) :
        /\ \E slot \in pending : SlotMatches(slot, reply, ResponderAddr(i))
        /\ AcceptPacket(reply, ResponderAddr(i), EnvOk(FALSE))

SpecOps == InitOps /\ [][NextOps]_vars

\* the timer of the overall timeout fires in the end
SpecOpsFair == SpecOps /\ WF_vars(OpTimeout)

\* the task is in the loop of the lookup
InLoop(call) == call.pc \in {"rpcs", "sleep"}

\* the Ids of the nearest nodes, as a pass of the loop started now finds them
NearestIdsNow ==
    LET nearest == NearestFirst(seed(op.buckets, get_all_verified(buckets)), op.target, K)
    IN  [k \in 1..Len(nearest) |-> nearest[k].id]

\* C18: the loop of find_node and get_peers always ends: a call that is in
\* the loop leaves it in the end, whatever the nodes answer; and it leaves it
\* only when a pass finds the nearest Ids it found the pass before, or when
\* the overall timeout is over.
C18_LookupTerminates ==
    /\ InLoop(op) ~> ~InLoop(op)
    /\ [][(InLoop(op) /\ ~InLoop(op')) =>
            \/ /\ op'.ended = {"same_nearest"}
               /\ op.pc = "sleep"
               /\ NearestIdsNow # <<>>
               /\ NearestIdsNow = op.best_ids
            \/ /\ op'.ended = {"timeout"}
               /\ last'.op = "op_timeout"]_vars
    /\ []((op.kind \in {"find_node", "get_peers"} /\ op.pc # "idle" /\ ~InLoop(op)) =>
            op.pc = "done")

\* a lookup has ended because two passes found the same two nearest nodes
C18_Witness ==
    /\ op.kind = "find_node"
    /\ op.pc = "done"
    /\ op.ended = {"same_nearest"}
    /\ Len(op.best_ids) = 2

\* the result of an operation that has returned
Result == Unwrap(op.result)

\* C19: an operation that has returned has returned Ok; a request of it that
\* ends with an error takes that node off the round and leaves the rest of
\* the round and what was gathered as they were; and when the overall
\* timeout ends the loop, the result is made of what was gathered until then.
C19_RpcErrorsAreSkipped ==
    /\ [](op.pc = "done" => (IsSome(op.result) /\ Result.status = "Ok"))
    /\ [][(last'.op = "op_rpc_error" /\ op' # op) =>
            /\ \E t \in op.todos : op'.todos = op.todos \ {t}
            /\ op'.buckets = op.buckets
            /\ op'.unique_peers = op.unique_peers
            /\ op'.responders = op.responders
            /\ op'.to_ret = op.to_ret
            /\ op'.pc \in {op.pc, "sleep", "done"}
            /\ op'.pc = "done" => (op.pc = "announce" /\ op'.todos = {})]_vars
    /\ [][(last'.op = "op_timeout" /\ op' # op) =>
            /\ op.kind = "find_node" =>
                    /\ op'.pc = "done"
                    /\ Unwrap(op'.result).nodes = NearestFirst(op.buckets, op.target, K)
            /\ op.kind = "get_peers" =>
                    /\ op'.pc = "done"
                    /\ Range(Unwrap(op'.result).peers) = op.unique_peers
                    /\ Len(Unwrap(op'.result).responders) = Len(op.responders)
                    /\ Range(Unwrap(op'.result).responders) = Range(op.responders)
            /\ op.kind = "announce_peer" =>
                    /\ op'.pc \in {"announce", "done"}
                    /\ op'.pc = "announce" <=> op.responders # <<>>
                    /\ {t.node : t \in op'.todos} = {r.node : r \in Range(op.responders)}
          ]_vars

\* find_node has returned what it had when the overall timeout was over,
\* after a request of it had failed
C19_Witness ==
    /\ op.kind = "find_node"
    /\ op.pc = "done"
    /\ op.ended = {"timeout"}
    /\ op.skipped # {}
    /\ Result.status = "Ok"
    /\ Len(Result.nodes) = 2

\* the get_peers responses the lookup took
HeardGetPeers == {h \in op.heard : h.msg.kind = "GetPeersResponse"}

\* C20: the peers of the result of get_peers are the peers of the get_peers
\* responses the lookup took, each once; its responders are in ascending
\* XOR distance to info_hash; and each responder is the node of such a
\* response, with the token of that response.
C20_GetPeersResult ==
    (op.kind = "get_peers" /\ op.pc = "done") =>
        /\ Range(Result.peers) = UNION {Range(h.msg.peers) : h \in HeardGetPeers}
        /\ \A i, j \in 1..Len(Result.peers) : Result.peers[i] = Result.peers[j] => i = j
        /\ \A i, j \in 1..Len(Result.responders) :
                i < j => xor(Result.responders[i].node.id, op.target)
                            <= xor(Result.responders[j].node.id, op.target)
        /\ \A k \in 1..Len(Result.responders) :
                \E h \in HeardGetPeers :
                    /\ h.node = Result.responders[k].node
                    /\ h.msg.responder_id = Result.responders[k].node.id
                    /\ h.msg.token = Result.responders[k].token
        /\ \A h \in HeardGetPeers :
                \E k \in 1..Len(Result.responders) :
                    /\ h.node = Result.responders[k].node
                    /\ h.msg.token = Result.responders[k].token

\* both nodes have answered with peers, one of them stored by both, the
\* farther node first
C20_Witness ==
    /\ op.kind = "get_peers"
    /\ op.pc = "done"
    /\ Range(Result.peers) = {PeerP, PeerQ}
    /\ \E h1, h2 \in HeardGetPeers :
            /\ h1.node # h2.node
            /\ Range(h1.msg.peers) \cap Range(h2.msg.peers) # {}
    /\ Result.responders # op.responders

(***************************************************************************)
(* SpecAnnounce: announce_peer after its get_peers phase.  Init is the     *)
(* state in which the lookup sleeps after its last round: the nodes of     *)
(* AnnArrivals have answered get_peers, in that order, and are verified in *)
(* the routing table.  The next pass finds the same nearest nodes and      *)
(* leaves the loop, or the overall timeout does.  The nodes of AnnRepliers *)
(* answer an announce or not; an error message comes back for the          *)
(* announces of AnnErrTids or not; every announce can time out.            *)
(***************************************************************************)
AnnOrder == <<8, 1, 2, 3, 4, 5, 6, 7, 9>>
AnnPort == 4000
SecondToken == <<17>>

Responded(i, token) == [node |-> OpNode(i), token |-> token]

AnnArrivals ==
    {<<>>,
     <<Responded(1, TokenOf(1)), Responded(2, TokenOf(2)), Responded(1, SecondToken)>>,
     [k \in 1..Len(AnnOrder) |-> Responded(AnnOrder[k], TokenOf(AnnOrder[k]))]}

AnnRepliers == {1, 3}
AnnErrTids == {AnnounceTid(2)}

\* the lookup of announce_peer, asleep after the round in which the last of
\* responders answered
AnnLookup(responders, port) ==
    LET wrappers == {[node |-> responders[k].node, verified |-> TRUE] :
                        k \in 1..Len(responders)}
        nearest == NearestFirst(wrappers, OpTarget, K)
    IN  [NoCall EXCEPT
            !.kind = "announce_peer", !.pc = "sleep", !.target = OpTarget,
            !.port = port, !.buckets = wrappers,
            !.best_ids = [k \in 1..Len(nearest) |-> nearest[k].id],
            !.responders = responders,
            !.heard = {[node |-> responders[k].node,
                        msg |-> new_get_peers_response_nodes(
                                    responders[k].node.id, LookupTid(responders[k].node),
                                    OurAddr, responders[k].token, <<>>)] :
                            k \in 1..Len(responders)}]

InitAnnounce ==
    /\ our_id = 0
    /\ read_only = FALSE
    /\ \E responders \in AnnArrivals, port \in {NoneV, Some(AnnPort)} :
        /\ op = AnnLookup(responders, port)
        /\ buckets = [set_id(NodeStorage_new, our_id) EXCEPT !.nodes = op.buckets]
    /\ ip4_source = {}
    /\ peer_storage = PeerStorage_new
    /\ token_secret = OneSecret
    /\ old_token_secret = OneSecret
    /\ subscribers = <<>>
    /\ pending = {}
    /\ replies = {}
    /\ now = 0
    /\ tasks = [t \in Tasks |-> "Running"]
    /\ shutdown = FALSE
    /\ result = NoneV
    /\ tracked = NoneV
    /\ last = NoOp
    /\ mutex = NoMutex
    /\ find_node_round = NoneV

NextAnnounce ==
    \/ OpWake
    \/ OpTimeout
    \/ OpReply
    \/ \E err \in {"TimeoutError", "GeneralError"} : OpRpcError(err)
    \/ \E i \in AnnRepliers : \E k \in 1..K :
        /\ \E slot \in pending :
                SlotMatches(slot, new_announce_peer_response(i, AnnounceTid(k), OurAddr),
                            ResponderAddr(i))
        /\ AcceptPacket(new_announce_peer_response(i, AnnounceTid(k), OurAddr),
                        ResponderAddr(i), EnvOk(FALSE))
    \/ \E tid \in AnnErrTids :
        /\ \E slot \in pending : slot.transaction_id = tid
        /\ AcceptPacket(new_error(tid), ResponderAddr(2), EnvOk(FALSE))

SpecAnnounce == InitAnnounce /\ [][NextAnnounce]_vars

\* the nodes announce_peer has sent an announce to
AnnouncedTo == {<<a.dest_id, a.dest>> : a \in op.announced}

\* C21: announce_peer sends its announces only to responders of its
\* get_peers phase, to at most 8 of them and to none that is farther from
\* info_hash than a responder it leaves out; each announce carries a token
\* that this responder returned, and implied_port exactly when no port was
\* given; the nodes it returns are those whose announce was answered with
\* a response.
C21_AnnounceToNearest ==
    /\ []((op.kind = "announce_peer" /\ op.pc \in {"announce", "done"}) =>
            /\ Cardinality(op.announced) = Min(8, Len(op.responders))
            /\ {t.slot : t \in op.todos} \subseteq
                    {SlotFor(a.dest, a.dest_id, a.req.transaction_id) : a \in op.announced}
            /\ \A a \in op.announced :
                /\ \E h \in HeardGetPeers :
                        /\ h.node.address = a.dest
                        /\ Some(h.node.id) = a.dest_id
                        /\ h.msg.responder_id = h.node.id
                        /\ h.msg.token = a.req.token
                /\ \A h \in HeardGetPeers :
                        <<Some(h.node.id), h.node.address>> \notin AnnouncedTo =>
                            xor(Unwrap(a.dest_id), op.target) <= xor(h.node.id, op.target)
                /\ a.req.message_type = "Request"
                /\ a.req.kind = "announce_peer"
                /\ a.req.target = op.target
                /\ a.req.implied_port = Some(~IsSome(op.port))
                /\ IsSome(op.port) => a.req.port = Unwrap(op.port)
            /\ op.pc = "done" => Result.nodes = op.to_ret)
    /\ [][(op.kind = "announce_peer" /\ op'.to_ret # op.to_ret) =>
            /\ op.pc = "announce"
            /\ last'.op = "op_reply"
            /\ \E t \in op.todos, r \in replies :
                    /\ r.slot = t.slot
                    /\ r.reply.message_type = "Response"
                    /\ op'.todos = op.todos \ {t}
                    /\ op'.to_ret = Append(op.to_ret, t.node)]_vars
    /\ [][(op.pc = "announce" /\ last'.op = "op_reply" /\ op' # op
                /\ op'.to_ret = op.to_ret) =>
            \E t \in op.todos, r \in replies :
                    /\ r.slot = t.slot
                    /\ r.reply.message_type # "Response"
                    /\ op'.todos = op.todos \ {t}]_vars

\* nine nodes answered get_peers: the eight nearest were announced to, two
\* of them acknowledged and are returned, and an announce failed
C21_Witness ==
    /\ op.kind = "announce_peer"
    /\ op.pc = "done"
    /\ Len(op.responders) = 9
    /\ Cardinality(op.announced) = 8
    /\ Len(Result.nodes) = 2
    /\ op.skipped # {}
    /\ \A a \in op.announced : a.req.implied_port = Some(TRUE)

(***************************************************************************)
(* SpecFind: find_node on a node whose routing table holds the verified    *)
(* nodes of FindKnown.  Node FindReplier answers find_node with three      *)
(* nodes the table does not hold, or with a ping response, or not at all;  *)
(* the other nodes never answer and their requests time out.               *)
(***************************************************************************)
FindKnown == 4..10
FindReplier == 4
FindLearned == <<OpNode(3), OpNode(2), OpNode(12)>>

FindReplies ==
    {new_find_node_response(FindReplier, LookupTid(OpNode(FindReplier)), OurAddr, FindLearned),
     new_ping_response(FindReplier, LookupTid(OpNode(FindReplier)), OurAddr)}

InitFind ==
    /\ our_id = 0
    /\ read_only = FALSE
    /\ buckets = [set_id(NodeStorage_new, our_id) EXCEPT
                    !.nodes = {[node |-> OpNode(i), verified |-> TRUE] : i \in FindKnown}]
    /\ op = NoCall
    /\ ip4_source = {}
    /\ peer_storage = PeerStorage_new
    /\ token_secret = OneSecret
    /\ old_token_secret = OneSecret
    /\ subscribers = <<>>
    /\ pending = {}
    /\ replies = {}
    /\ now = 0
    /\ tasks = [t \in Tasks |-> "Running"]
    /\ shutdown = FALSE
    /\ result = NoneV
    /\ tracked = NoneV
    /\ last = NoOp
    /\ mutex = NoMutex
    /\ find_node_round = NoneV

NextFind ==
    \/ OpStart("find_node", OpTarget, NoneV)
    \/ OpWake
    \/ OpTimeout
    \/ OpReply
    \/ OpRpcError("TimeoutError")
    \/ \E reply \in FindReplies :
        /\ \E slot \in pending : SlotMatches(slot, reply, ResponderAddr(FindReplier))
        /\ AcceptPacket(reply, ResponderAddr(FindReplier), EnvOk(FALSE))

SpecFind == InitFind /\ [][NextFind]_vars

\* the nodes of the Buckets of the lookup
Retained(call) == {w.node : w \in call.buckets}

\* the nodes of the find_node responses the lookup took
HeardNodes(call) ==
    UNION {Range(h.msg.nodes) : h \in {x \in call.heard : x.msg.kind = "FindNodeResponse"}}

\* C22: find_node returns at most 8 nodes, in ascending XOR distance to the
\* target, and they are the nearest of the nodes its Buckets hold; the
\* Buckets hold the nodes the lookup learned of and no others: those of the
\* verified routing table at a pass of the loop and those of the find_node
\* responses it took.
C22_FindNodeResult ==
    /\ []((op.kind = "find_node" /\ op.pc = "done") =>
            /\ Len(Result.nodes) <= 8
            /\ Len(Result.nodes) = Min(8, Cardinality(Retained(op)))
            /\ Range(Result.nodes) \subseteq Retained(op)
            /\ \A i, j \in 1..Len(Result.nodes) :
                    i < j => xor(Result.nodes[i].id, op.target) < xor(Result.nodes[j].id, op.target)
            /\ \A n \in Retained(op) \ Range(Result.nodes) :
                    \A k \in 1..Len(Result.nodes) :
                        xor(Result.nodes[k].id, op.target) <= xor(n.id, op.target)
            /\ HeardNodes(op) \subseteq Retained(op))
    /\ [][op'.kind = "find_node" =>
            /\ (op.kind = "find_node" => Retained(op) \subseteq Retained(op'))
            /\ Retained(op') \subseteq
                    (IF op.kind = "find_node" THEN Retained(op) ELSE {})
                        \cup {w.node : w \in get_all_verified(buckets)}
                        \cup HeardNodes(op')
            /\ (last'.op \in {"op_start", "op_wake"} /\ op' # op) =>
                    {w.node : w \in get_all_verified(buckets)} \subseteq Retained(op')]_vars

\* find_node has learned of ten nodes, seven from the routing table and
\* three from a response, and has returned the eight nearest
C22_Witness ==
    /\ op.kind = "find_node"
    /\ op.pc = "done"
    /\ op.ended = {"same_nearest"}
    /\ Cardinality(Retained(op)) = 10
    /\ Len(Result.nodes) = 8
    /\ Result.nodes[1] = OpNode(3)
    /\ OpNode(12) \notin Range(Result.nodes)

(***************************************************************************)
(* SpecMutex: the tasks of the event loop, a ping and a lookup run their   *)
(* code against the Mutex in any interleaving.                             *)
(***************************************************************************)
InitMutex == InitWith({0}, {FALSE}, {OneSecret})

NextMutex ==
    \E t \in MutexTasks :
        \/ MutexLock(t)
        \/ MutexUnlock(t)
        \/ Suspend(t)
        \/ Resume(t)

SpecMutex == InitMutex /\ [][NextMutex]_vars

\* task t waits for the Mutex
BlockedOnMutex(t) ==
    /\ t \notin mutex.suspended
    /\ StepOf(t).ev = "lock"
    /\ mutex.holder # NoneV

\* C23: no task that is suspended at an await (a UDP send or receive, a
\* sleep, a reply slot, a hostname resolution) holds the Mutex, so a task
\* that waits for the Mutex never waits for a suspended task.
C23_NoGuardAcrossAwait ==
    /\ \A t \in mutex.suspended : mutex.holder # Some(t)
    /\ \A t \in MutexTasks :
            BlockedOnMutex(t) => Unwrap(mutex.holder) \notin mutex.suspended

\* the accept task waits for the Mutex, which periodic_ip4_maintenance
\* holds, while the lookup and the ping are suspended
C23_Witness ==
    /\ BlockedOnMutex("accept_incoming_packets")
    /\ mutex.holder = Some("periodic_ip4_maintenance")
    /\ {"find_node", "ping_internal", "periodic_buddy_ping"} \subseteq mutex.suspended

\* the accept task has just come upon the error err, receiving a datagram
\* or handling it
AcceptFails(err) ==
    /\ Running("accept_incoming_packets")
    /\ last'.op \in {"accept", "recv_error"}
    /\ last'.err = Some(err)
    /\ (last' # last \/ tasks' # tasks)

\* C24 as stated: after a PacketParse or Conntrack error the accept task
\* goes on; any other error ends the accept task and run_event_loop
\* returns that error.
C24_AsStated ==
    [][\A err \in ErrorKinds : AcceptFails(err) =>
            IF err \in {"PacketParseError", "ConntrackError"}
            THEN tasks'["accept_incoming_packets"] = "Running" /\ result' = NoneV
            ELSE tasks'["accept_incoming_packets"] = err /\ result' = Some(err)]_vars

\* C24 amended: after a PacketParse or Conntrack error the accept task goes
\* on; any other error ends the accept task and with it run_event_loop,
\* which returns that error, or Ok(()) when the error is a ShutdownError.
C24_AcceptErrors ==
    [][\A err \in ErrorKinds : AcceptFails(err) =>
            IF err \in {"PacketParseError", "ConntrackError"}
            THEN tasks'["accept_incoming_packets"] = "Running" /\ result' = NoneV
            ELSE /\ tasks'["accept_incoming_packets"] = err
                 /\ result' = Some(IF err = "ShutdownError" THEN "Ok" ELSE err)]_vars

\* the reply to a ping could not be sent, and run_event_loop has returned
\* the error of the send
C24_Witness ==
    /\ last.op = "accept"
    /\ last.dispatched
    /\ last.sent = <<>>
    /\ last.err = Some("GeneralError")
    /\ tasks["accept_incoming_packets"] = "GeneralError"
    /\ result = Some("GeneralError")
    /\ ~shutdown

(***************************************************************************)
(* SpecGate: a node, read-only or not, with subscribers that take their    *)
(* events before the next datagram comes.  Requests of three kinds come    *)
(* from a port and from port 0, throttled or not; the node pings a node,   *)
(* whose answer is throttled or not.                                       *)
(***************************************************************************)
GateAddrs == {SocketAddr(LOCALHOST, 2014), SocketAddr(LOCALHOST, 0)}
GateRequesterId == 3
GateTid == 7

GateRequests(addr) ==
    {new_ping_request(GateTid, GateRequesterId, NoneV),
     new_get_peers_request(GateTid, GateRequesterId, NoneV, 3),
     new_announce_peer_request(GateTid, GateRequesterId, NoneV, 3, 1234, NoneV,
                               calculate_token(addr, token_secret))}

QueuesEmpty == \A k \in 1..Len(subscribers) : subscribers[k].queue = <<>>

Throttled(throttled) == [EnvOk(FALSE) EXCEPT !.throttled = throttled]

InitGate == InitWith({0}, {FALSE, TRUE}, {OneSecret})

NextGate ==
    \/ Subscribe
    \/ \E k \in 1..MaxSubscribers : ReceiverRecv(k)
    \/ \E addr \in GateAddrs, throttled \in BOOLEAN :
        \E msg \in GateRequests(addr) :
            /\ QueuesEmpty
            /\ AcceptPacket(msg, addr, Throttled(throttled))
    \/ PingInternal(Responder, 1)
    \/ \E throttled \in BOOLEAN :
            /\ QueuesEmpty
            /\ AcceptPacket(new_ping_response(ResponderId, 1, OurAddr), Responder,
                            Throttled(throttled))
    \/ HandleResponse(new_ping_response(ResponderId, 1, OurAddr), Responder)

SpecGate == InitGate /\ [][NextGate]_vars

C26_ReadOnly ==
    [][(read_only /\ last'.op = "accept") =>
            /\ last'.sent = <<>>
            /\ buckets' = buckets
            /\ peer_storage' = peer_storage
            /\ (~last'.throttled /\ last'.addr.port # 0 /\ last'.err = NoneV) =>
                    /\ Len(subscribers') = Len(subscribers)
                    /\ \A k \in 1..Len(subscribers) :
                            subscribers'[k].queue = Append(subscribers[k].queue, last'.msg)]_vars

\* a read-only node took an announce_peer with a valid token: nothing is
\* stored, nothing is sent, and the subscriber has the event
C26_Witness ==
    /\ read_only
    /\ last.op = "accept"
    /\ last.msg.kind = "announce_peer"
    /\ is_token_valid(last.msg.token, last.addr)
    /\ last.sent = <<>>
    /\ peer_storage = PeerStorage_new
    /\ buckets.nodes = {}
    /\ Len(subscribers) = 1
    /\ subscribers[1].queue = <<last.msg>>

(***************************************************************************)
(* SpecJoin: requests of every kind, with the read-only flag set, cleared  *)
(* or absent, from a node whose Id is valid for its IP, from one whose Id  *)
(* is not, and from the node that answers our pings.                       *)
(***************************************************************************)
JoinRequesters == ReplyRequesters \cup {[id |-> ResponderId, addr |-> Responder]}

JoinRequests(r, ro) ==
    {[m EXCEPT !.read_only = ro] :
        m \in ReplyRequests(r.id, GateTid, calculate_token(r.addr, token_secret))}

InitJoin == InitWith({0}, {FALSE}, {OneSecret})

NextJoin ==
    \/ \E r \in JoinRequesters, ro \in {NoneV, Some(FALSE), Some(TRUE)} :
        \E msg \in JoinRequests(r, ro) :
          \E samples \in partial_shuffle(PeerStorage_get_info_hashes(peer_storage),
                                         max_sample_response) :
            AcceptPacket(msg, r.addr,
                [EnvOk(FALSE) EXCEPT !.samples =
                    IF msg.kind = "sample_infohashes" THEN samples ELSE <<>>])
    \/ PingInternal(Responder, 1)
    \/ AcceptPacket(new_ping_response(ResponderId, 1, OurAddr), Responder, EnvOk(FALSE))
    \/ HandleResponse(new_ping_response(ResponderId, 1, OurAddr), Responder)

SpecJoin == InitJoin /\ [][NextJoin]_vars

\* the entry of the routing table for Id id, if there is one
EntryOf(b, id) == {w \in b.nodes : w.node.id = id}

\* C27: handling a request adds the sender, with its Id and source address,
\* to the routing table as unverified when its Id is valid for its source
\* IP and the request does not carry the read-only flag (a sender that is
\* in the table stays as it is), and leaves the table as it was otherwise;
\* it never makes a node verified.
C27_RequestUpsert ==
    [][(last'.op = "accept" /\ last'.dispatched /\ last'.msg.message_type = "Request") =>
            /\ get_all_verified(buckets') = get_all_verified(buckets)
            /\ buckets'.id = buckets.id
            /\ IF /\ is_valid_for_ip(last'.msg.requester_id, last'.addr.ip)
                  /\ last'.msg.read_only # Some(TRUE)
               THEN buckets'.nodes =
                        buckets.nodes \cup
                            IF EntryOf(buckets, last'.msg.requester_id) # {} THEN {}
                            ELSE {[node |-> Node_new(last'.msg.requester_id, last'.addr),
                                   verified |-> FALSE]}
               ELSE buckets'.nodes = buckets.nodes]_vars

\* the sender with an invalid Id has just announced a peer and is not in the
\* table; the sender with a valid Id is in the table, unverified; the node
\* that answered our ping is in the table, verified
C27_Witness ==
    /\ last.op = "accept"
    /\ last.dispatched
    /\ last.msg.message_type = "Request"
    /\ last.msg.kind = "announce_peer"
    /\ last.msg.requester_id = 12
    /\ EntryOf(buckets, 12) = {}
    /\ EntryOf(buckets, 3) = {[node |-> Node_new(3, SocketAddr(LOCALHOST, 2014)), verified |-> FALSE]}
    /\ EntryOf(buckets, ResponderId) = {[node |-> Node_new(ResponderId, Responder), verified |-> TRUE]}
    /\ SocketAddr(PublicIp, 1234) \in Range(PeerStorage_get_peers(peer_storage, 3, NoneV))

(***************************************************************************)
(* SpecVerify: the node pings two nodes and sends a find_node request to   *)
(* either of them.  Responder has an Id that is valid for its IP, Liar has *)
(* not.  They answer with ping and find_node responses, with and without   *)
(* requester_ip; the find_node responses list nodes with valid and invalid *)
(* Ids, the responder itself among them.  A third node sends requests.     *)
(***************************************************************************)
Liar == SocketAddr(OtherIp, 2015)
LiarId == 12
VerifyNodes == {[id |-> ResponderId, addr |-> Responder], [id |-> LiarId, addr |-> Liar]}
VerifyPingTid == [n \in VerifyNodes |-> IF n.id = ResponderId THEN 1 ELSE 2]
VerifyFindTid == 3
VerifyAsker == [id |-> 3, addr |-> SocketAddr(LOCALHOST, 2014)]

\* the nodes a find_node response lists: Ids 13 and 3 are valid for their
\* IP, Id 12 is not
VerifySeen(n) ==
    <<Node_new(13, SocketAddr(PublicIp, 7000)), Node_new(LiarId, SocketAddr(PublicIp, 7001)),
      Node_new(n.id, n.addr), Node_new(VerifyAsker.id, VerifyAsker.addr)>>

VerifyReplies(n, tid) ==
    {new_ping_response(n.id, tid, OurAddr),
     [new_ping_response(n.id, tid, OurAddr) EXCEPT !.requester_ip = NoneV],
     new_find_node_response(n.id, tid, OurAddr, VerifySeen(n))}

InitVerify == InitWith({0}, {FALSE}, {OneSecret})

NextVerify ==
    \/ \E n \in VerifyNodes : PingInternal(n.addr, VerifyPingTid[n])
    \/ \E n \in VerifyNodes : \E dest_id \in {NoneV, Some(n.id)} :
            SendRequest(new_find_node_request(0, our_id, NoneV, 6), n.addr, dest_id,
                        NoneV, VerifyFindTid, "Ok")
    \/ \E n \in VerifyNodes : \E tid \in {VerifyPingTid[n], VerifyFindTid} :
        \E reply \in VerifyReplies(n, tid) : AcceptPacket(reply, n.addr, EnvOk(FALSE))
    \/ AcceptPacket(new_ping_request(GateTid, VerifyAsker.id, NoneV), VerifyAsker.addr,
                    EnvOk(FALSE))
    \/ \E n \in VerifyNodes : \E reply \in VerifyReplies(n, VerifyPingTid[n]) :
            HandleResponse(reply, n.addr)
    \/ SendRequestReply

SpecVerify == InitVerify /\ [][NextVerify]_vars

\* the step took a reply out of its slot and handled it
HandledReply(r) ==
    /\ r \in replies
    /\ r \notin replies'
    /\ last'.op \in {"response", "send_request_reply"}
    /\ last'.msg = r.reply
    /\ last'.addr = r.slot.dest

\* C28: the table starts without verified nodes, and an entry becomes
\* verified only in a step that handles a response taken from the reply slot
\* of a request of this node, a response whose author is the entry's Id (and
\* whose request went to the entry's address when the entry is new); a reply
\* gets into a slot only when a datagram matches the slot of a request in
\* flight, and a request is in flight only when this node has sent it.  No
\* incoming request and no node list of a find_node response makes an entry
\* verified.
C28_VerifiedOnlyByReply ==
    /\ get_all_verified(buckets) = {}
    /\ [][/\ \A w \in get_all_verified(buckets') \ get_all_verified(buckets) :
                \E r \in replies :
                    /\ HandledReply(r)
                    /\ r.reply.message_type = "Response"
                    /\ r.reply.responder_id = w.node.id
                    /\ EntryOf(buckets, w.node.id) = {} => w.node.address = r.slot.dest
          /\ \A r \in replies' \ replies :
                /\ last'.op = "accept"
                /\ last'.msg = r.reply
                /\ r.slot \in pending \ pending'
                /\ r.slot.transaction_id = r.reply.transaction_id
                /\ \/ r.slot.dest.ip = last'.addr.ip
                   \/ r.slot.dest_id = get_author_id(r.reply)
          /\ \A slot \in pending' \ pending :
                /\ last'.op \in {"ping_internal", "send_request"}
                /\ last'.msg.message_type = "Request"
                /\ last'.msg.transaction_id = slot.transaction_id
                /\ last'.addr = slot.dest
          /\ (last'.op = "accept" /\ last'.msg.message_type = "Request")
                => get_all_verified(buckets') = get_all_verified(buckets)]_vars

\* the find_node response of Responder has been handled: Responder is the
\* one verified node, the nodes it listed and the node that sent a request
\* are in the table, unverified
C28_Witness ==
    /\ last.op = "send_request_reply"
    /\ last.msg.kind = "FindNodeResponse"
    /\ get_all_verified(buckets) = {[node |-> Node_new(ResponderId, Responder), verified |-> TRUE]}
    /\ {w.node.id : w \in get_all_unverified(buckets)} = {13, VerifyAsker.id}

\* the table after the responder id at target has been upserted as verified
WithVerified(nodes, id, target) ==
    IF \E w \in nodes : w.node.id = id
    THEN {IF w.node.id = id THEN [w EXCEPT !.verified = TRUE] ELSE w : w \in nodes}
    ELSE nodes \cup {[node |-> Node_new(id, target), verified |-> TRUE]}

\* C29: when a response taken from its reply slot is handled, the responder
\* is upserted as verified (with the address the request went to) if its Id
\* is valid for that address's IP, and then its requester_ip, if the reply
\* has one, replaces the vote of the responder's IP; a responder with an
\* invalid Id gets no entry and no vote.  The nodes of a find_node response
\* whose Id is valid for their IP and that the table does not hold are added
\* as unverified, whether the responder's Id is valid or not; nothing else
\* in the table or among the votes changes.
C29_ResponseHandling ==
    [][(last'.op \in {"response", "send_request_reply"} /\ last'.msg.message_type = "Response") =>
        LET reply == last'.msg
            target == last'.addr
            id == reply.responder_id
            valid == is_valid_for_ip(id, target.ip)
            base == IF valid THEN WithVerified(buckets.nodes, id, target) ELSE buckets.nodes
            seen == IF reply.kind = "FindNodeResponse"
                    THEN {n \in Range(reply.nodes) :
                            /\ is_valid_for_ip(n.id, n.address.ip)
                            /\ \A w \in base : w.node.id # n.id}
                    ELSE {}
        IN  /\ buckets'.nodes = base \cup {[node |-> n, verified |-> FALSE] : n \in seen}
            /\ ip4_source' =
                 IF valid /\ IsSome(reply.requester_ip)
                 THEN {v \in ip4_source : v.voter # target.ip}
                        \cup {[voter |-> target.ip, ip |-> Unwrap(reply.requester_ip).ip,
                               weight |-> VoteWeight]}
                 ELSE ip4_source]_vars

\* the find_node response of Liar has been handled: Liar has no entry and no
\* vote, the nodes with a valid Id that it listed are in the table,
\* unverified; Responder, which answered a ping, is verified and has voted
C29_Witness ==
    /\ last.op = "send_request_reply"
    /\ last.addr = Liar
    /\ last.msg.kind = "FindNodeResponse"
    /\ IsSome(last.msg.requester_ip)
    /\ EntryOf(buckets, LiarId) = {}
    /\ {v.voter : v \in ip4_source} = {Responder.ip}
    /\ get_all_verified(buckets) = {[node |-> Node_new(ResponderId, Responder), verified |-> TRUE]}
    /\ {w.node.id : w \in get_all_unverified(buckets)} = {13, VerifyAsker.id}

(***************************************************************************)
(* The liveness fields of a NodeWrapper and the buddy ping.  Where the     *)
(* age of an entry matters a wrapper carries last_seen and last_verified   *)
(* next to node and verified, with verified <=> last_verified is Some.     *)
(***************************************************************************)
reverify_interval_secs == 1
reverify_grace_period_secs == 2
verify_grace_period_secs == 1

\* a wrong variant: a verified upsert of an entry the table holds stamps
\* last_verified and leaves the flag as it was
add_or_update_at_stamp_only(b, node, verified, t) ==
    IF \E w \in b.nodes : w.node.id = node.id
    THEN [b EXCEPT !.nodes =
            {IF w.node.id # node.id THEN w
             ELSE IF verified
             THEN [w EXCEPT !.last_seen = t, !.last_verified = Some(t)]
             ELSE [w EXCEPT !.last_seen = t] : w \in b.nodes}]
    ELSE [b EXCEPT !.nodes = b.nodes \cup
            {[node |-> node, verified |-> verified, last_seen |-> t,
              last_verified |-> IF verified THEN Some(t) ELSE NoneV]}]

\* add_or_update, with the clock it reads
add_or_update_at(b, node, verified, t) ==
    IF \E w \in b.nodes : w.node.id = node.id
    THEN [b EXCEPT !.nodes =
            {IF w.node.id # node.id THEN w
             ELSE IF verified
             THEN [w EXCEPT !.verified = TRUE, !.last_seen = t, !.last_verified = Some(t)]
             ELSE [w EXCEPT !.last_seen = t] : w \in b.nodes}]
    ELSE [b EXCEPT !.nodes = b.nodes \cup
            {[node |-> node, verified |-> verified, last_seen |-> t,
              last_verified |-> IF verified THEN Some(t) ELSE NoneV]}]

\* prune: the unverified wrappers not seen for verify_grace and the verified
\* ones not verified for reverify_grace are dropped
prune(b, reverify_grace, verify_grace, t) ==
    [b EXCEPT !.nodes =
        {w \in b.nodes :
            IF w.verified THEN ~(Unwrap(w.last_verified) + reverify_grace < t)
            ELSE ~(w.last_seen + verify_grace < t)}]

\* a wrong variant: every wrapper is pinged, however recently it was verified
ping_is_due_always(wrapper, ping_if_older_than) == TRUE

\* the test both loops of periodic_buddy_ping make: a wrapper verified at or
\* after ping_if_older_than is left alone
ping_is_due(wrapper, ping_if_older_than) ==
    ~(IsSome(wrapper.last_verified) /\ Unwrap(wrapper.last_verified) >= ping_if_older_than)

\* one pass of the loop of periodic_buddy_ping at time t, after its sleep:
\* the table after prune and the wrappers ping_internal is called for
buddy_ping_round(b, t) ==
    LET pruned == prune(b, reverify_grace_period_secs, verify_grace_period_secs, t)
        ping_if_older_than == checked_sub(t, reverify_interval_secs)
    IN  [buckets |-> pruned,
         pinged |-> IF ~IsSome(ping_if_older_than) THEN {}
                    ELSE {w \in get_all_unverified(pruned) \cup get_all_verified(pruned) :
                            ping_is_due(w, Unwrap(ping_if_older_than))}]

\* the transaction id the socket gives the ping of the round at time t to
\* the node id: one that no request in flight has
BuddyTid(id, t) == (t + 1) * 2^IdBits + id

BuddyPing(w, t) ==
    [msg |-> new_ping_request(BuddyTid(w.node.id, t), our_id, Some(read_only)),
     to |-> w.node.address,
     slot |-> SlotFor(w.node.address, Some(w.node.id), BuddyTid(w.node.id, t))]

PeriodicBuddyPing ==
    /\ Running("periodic_buddy_ping")
    /\ \E o \in {buddy_ping_round(buckets, now)} :
        /\ \A w \in o.pinged : FreshTid(BuddyTid(w.node.id, now))
        /\ buckets' = o.buckets
        /\ pending' = pending \cup {BuddyPing(w, now).slot : w \in o.pinged}
        /\ last' = [NoOp EXCEPT !.op = "buddy_ping", !.time = now,
                                !.pinged = {BuddyPing(w, now) : w \in o.pinged}]
    /\ UNCHANGED <<our_id, peer_storage, token_secret, old_token_secret, read_only,
                   subscribers, ip4_source, replies, now, loop_vars, tracked, op>>

(***************************************************************************)
(* SpecBuddy: three nodes on the local network.  The first is a router,    *)
(* pinged at the start; the others are heard of through their requests.    *)
(* Pings are answered or not, the clock advances, and the buddy ping runs  *)
(* its rounds.                                                             *)
(***************************************************************************)
BuddyRouter == Node_new(3, SocketAddr(LOCALHOST, 2014))
BuddyNodes == {BuddyRouter, Node_new(5, SocketAddr(LOCALHOST, 2015)),
               Node_new(9, SocketAddr(LOCALHOST, 2016))}

\* common_request_handling for a request of node, at the time it arrives
BuddySeen(node) ==
    /\ Running("accept_incoming_packets")
    /\ is_valid_for_ip(node.id, node.address.ip)
    /\ buckets' = add_or_update_at(buckets, node, FALSE, now)
    /\ last' = [NoOp EXCEPT !.op = "seen", !.addr = node.address, !.time = now]
    /\ UNCHANGED <<our_id, peer_storage, token_secret, old_token_secret, read_only,
                   subscribers, ip4_source, pending, replies, now, loop_vars, tracked, op>>

\* the ping response of node arrives, is matched to the slot of a ping in
\* flight and is handled by the task that waits for it
BuddyPong(node) ==
    /\ Running("accept_incoming_packets")
    /\ \E slot \in pending :
        /\ slot.dest = node.address
        /\ pending' = pending \ {slot}
    /\ buckets' = IF is_valid_for_ip(node.id, node.address.ip)
                  THEN add_or_update_at(buckets, node, TRUE, now)
                  ELSE buckets
    /\ last' = [NoOp EXCEPT !.op = "pong", !.addr = node.address, !.time = now]
    /\ UNCHANGED <<our_id, peer_storage, token_secret, old_token_secret, read_only,
                   subscribers, ip4_source, replies, now, loop_vars, tracked, op>>

InitBuddy == InitWith({0}, {FALSE}, {OneSecret})

NextBuddy ==
    \/ /\ now = 0
       /\ PingInternal(BuddyRouter.address, 1)
    \/ \E node \in BuddyNodes \ {BuddyRouter} : BuddySeen(node)
    \/ \E node \in BuddyNodes : BuddyPong(node)
    \/ \E node \in BuddyNodes : PingExpired(node.address)
    \/ PeriodicBuddyPing
    \/ Tick

SpecBuddy == InitBuddy /\ [][NextBuddy]_vars

\* the round pinged the node of wrapper w
PingedIn(pinged, w) ==
    \E p \in pinged :
        /\ p.to = w.node.address
        /\ p.msg.message_type = "Request"
        /\ p.msg.kind = "ping"
        /\ p.slot.dest = w.node.address

C30_WitnessUnderflow ==
    /\ last.op = "buddy_ping"
    /\ now < reverify_interval_secs
    /\ get_all_unverified(buckets) # {}
    /\ last.pinged = {}

(***************************************************************************)
(* periodic_find_node: one pass of its loop, in the two steps its awaits   *)
(* and its locks divide it in.                                             *)
(***************************************************************************)
find_nodes_skip_count == 1

\* the number of low bits make_mutant may change (4 of 160 in the program)
MutantBits == 2

\* Id::make_mutant(bits): an Id that differs from id in its low bits at most
make_mutant(id, bits) == {m \in Ids : m \div 2^bits = id \div 2^bits}

\* the transaction id the socket gives the find_node request to the node id
FindNodeTid(id) == 2^IdBits + id

RouterPing(r, tid) ==
    [msg |-> new_ping_request(tid, our_id, Some(read_only)), to |-> r, slot |-> Slot(r, tid)]

FindNodeInternal(node, target) ==
    [msg |-> new_find_node_request(FindNodeTid(node.id), our_id, Some(read_only), target),
     to |-> node.address,
     slot |-> SlotFor(node.address, Some(node.id), FindNodeTid(node.id))]

\* a wrong variant: the routers are pinged in every pass
routers_to_ping_always(count_verified, routers) == routers

\* the routers the pass pings again: all of them when no node is verified
routers_to_ping(count_verified, routers) == IF count_verified <= 0 THEN routers ELSE {}

\* a wrong variant: the pass never skips
nodes_to_ask_no_skip(b, id_near_us, count_unverified) == get_nearest_nodes(b, id_near_us, NoneV)

\* the nodes the pass sends find_node to
nodes_to_ask(b, id_near_us, count_unverified) ==
    IF count_unverified > find_nodes_skip_count THEN <<>>
    ELSE get_nearest_nodes(b, id_near_us, NoneV)

\* the pass reads the counts and, when no node is verified, pings the routers
PeriodicFindNodeCount(routers, tids) ==
    /\ Running("periodic_find_node")
    /\ find_node_round = NoneV
    /\ \E c \in {count(buckets)} :
        \E pings \in {{RouterPing(r, tids[r]) : r \in routers_to_ping(c[2], routers)}} :
            /\ \A p \in pings : FreshTid(p.slot.transaction_id)
            /\ find_node_round' = Some([count_unverified |-> c[1], count_verified |-> c[2]])
            /\ pending' = pending \cup {p.slot : p \in pings}
            /\ last' = [NoOp EXCEPT !.op = "find_node_count", !.time = now, !.count = c,
                                    !.pinged = pings]
    /\ UNCHANGED <<our_id, buckets, peer_storage, token_secret, old_token_secret,
                   read_only, subscribers, ip4_source, replies, now, tasks, shutdown,
                   result, mutex, tracked, op>>

\* the pass skips, or sends find_node for a mutant of our Id to the nearest
\* verified nodes, and sleeps
PeriodicFindNodeSend ==
    /\ Running("periodic_find_node")
    /\ find_node_round # NoneV
    /\ \E id_near_us \in make_mutant(our_id, MutantBits) :
        \E o \in {nodes_to_ask(buckets, id_near_us, Unwrap(find_node_round).count_unverified)} :
          \E reqs \in {{FindNodeInternal(o[k], id_near_us) : k \in 1..Len(o)}} :
            /\ \A p \in reqs : FreshTid(p.slot.transaction_id)
            /\ pending' = pending \cup {p.slot : p \in reqs}
            /\ last' = [NoOp EXCEPT !.op = "find_node_send", !.time = now,
                                    !.id = Some(id_near_us), !.pinged = reqs]
    /\ find_node_round' = NoneV
    /\ UNCHANGED <<our_id, buckets, peer_storage, token_secret, old_token_secret,
                   read_only, subscribers, ip4_source, replies, now, tasks, shutdown,
                   result, mutex, tracked, op>>

(***************************************************************************)
(* SpecNeighbors: the passes of periodic_find_node on a node with one      *)
(* router, whose table holds no node, two verified nodes or nine.  Two     *)
(* other nodes send pings; the router answers its ping or not.             *)
(***************************************************************************)
NeighborRouters == {RouterA}
NeighborRouterTid == 1
NeighborTables == {{}, 4..5, 4..12}
NeighborAskers == {13, 14}

InitNeighbors ==
    /\ our_id = 0
    /\ read_only = FALSE
    /\ \E known \in NeighborTables :
        buckets = [set_id(NodeStorage_new, our_id) EXCEPT
                      !.nodes = {[node |-> OpNode(i), verified |-> TRUE] : i \in known}]
    /\ op = NoCall
    /\ ip4_source = {}
    /\ peer_storage = PeerStorage_new
    /\ token_secret = OneSecret
    /\ old_token_secret = OneSecret
    /\ subscribers = <<>>
    /\ pending = {}
    /\ replies = {}
    /\ now = 0
    /\ tasks = [t \in Tasks |-> "Running"]
    /\ shutdown = FALSE
    /\ result = NoneV
    /\ tracked = NoneV
    /\ last = NoOp
    /\ mutex = NoMutex
    /\ find_node_round = NoneV

NextNeighbors ==
    \/ PeriodicFindNodeCount(NeighborRouters, [r \in NeighborRouters |-> NeighborRouterTid])
    \/ PeriodicFindNodeSend
    \/ \E i \in NeighborAskers :
        AcceptPacket(new_ping_request(GateTid, i, NoneV), ResponderAddr(i), EnvOk(FALSE))
    \/ AcceptPacket(new_ping_response(RouterAId, NeighborRouterTid, OurAddr), RouterA,
                    EnvOk(FALSE))
    \/ HandleResponse(new_ping_response(RouterAId, NeighborRouterTid, OurAddr), RouterA)
    \/ \E slot \in pending : PingExpired(slot.dest)

SpecNeighbors == InitNeighbors /\ [][NextNeighbors]_vars

\* the requests of a step are in flight after it, each with a slot of its own
InFlightAfter(reqs) ==
    /\ pending' = pending \cup {p.slot : p \in reqs}
    /\ \A p \in reqs : p.slot.dest = p.to /\ p.slot.transaction_id = p.msg.transaction_id

\* C31: a pass of periodic_find_node first counts the table and pings every
\* router again when, and only when, no node is verified; then, when the
\* number of unverified nodes it counted exceeds find_nodes_skip_count, it
\* sends nothing; otherwise it sends find_node, for one target that differs
\* from our Id in the low bits at most, to the verified nodes nearest to that
\* target, 8 of them at most.  The task keeps running.
C31_NeighborhoodRound ==
    [][/\ (find_node_round = NoneV /\ find_node_round' # NoneV) =>
            /\ Unwrap(find_node_round').count_unverified =
                    Cardinality(get_all_unverified(buckets))
            /\ IF get_all_verified(buckets) = {}
               THEN /\ {p.to : p \in last'.pinged} = NeighborRouters
                    /\ \A p \in last'.pinged : p.msg.kind = "ping"
               ELSE last'.pinged = {}
            /\ InFlightAfter(last'.pinged)
            /\ tasks' = tasks
       /\ (find_node_round # NoneV /\ find_node_round' = NoneV) =>
            /\ IF Unwrap(find_node_round).count_unverified > find_nodes_skip_count
               THEN last'.pinged = {}
               ELSE /\ Cardinality(last'.pinged) =
                            Min(K, Cardinality(get_all_verified(buckets)))
                    /\ \E target \in Ids :
                        /\ target \div 2^MutantBits = our_id \div 2^MutantBits
                        /\ \A p \in last'.pinged :
                            /\ p.msg.kind = "find_node"
                            /\ p.msg.target = target
                            /\ \E w \in get_all_verified(buckets) :
                                /\ w.node.address = p.to
                                /\ \A v \in get_all_verified(buckets) :
                                      (\A q \in last'.pinged : q.to # v.node.address)
                                          => xor(v.node.id, target) >= xor(w.node.id, target)
            /\ InFlightAfter(last'.pinged)
            /\ tasks' = tasks]_vars

\* a pass that found nine verified nodes and one unverified node has sent
\* find_node to eight of them
C31_Witness ==
    /\ last.op = "find_node_send"
    /\ Cardinality(get_all_verified(buckets)) = 9
    /\ Cardinality(get_all_unverified(buckets)) = 1
    /\ Cardinality(last.pinged) = K

\* a pass on an empty table has pinged the router again
C31_WitnessRouters ==
    /\ last.op = "find_node_count"
    /\ buckets.nodes = {}
    /\ {p.to : p \in last.pinged} = NeighborRouters

\* a pass that counted two unverified nodes has sent nothing
C31_WitnessSkip ==
    /\ last.op = "find_node_send"
    /\ Cardinality(get_all_unverified(buckets)) > find_nodes_skip_count
    /\ get_all_verified(buckets) # {}
    /\ last.pinged = {}

(***************************************************************************)
(* The tasks that ping_internal and find_node_internal spawn.  Each is     *)
(* known by the reply slot of its request; it ends when it has handled the *)
(* reply, when its request could not be sent, when its 5 seconds are over  *)
(* or when Shutdown is signalled.                                          *)
(***************************************************************************)
\* a wrong variant: the error of the spawned task ends the task that spawned it
spawned_task_failed_propagates(ts, err) == [ts EXCEPT !["periodic_find_node"] = err]

\* the spawned task matches on the error and logs it; nothing is handed to
\* the task that spawned it, which got Ok(()) when it spawned
spawned_task_failed(ts, err) == ts

\* send_to fails in the spawned task: the error is logged and the task ends
SpawnedSendFailed(target, err) ==
    /\ ~IsSome(result)
    /\ \E slot \in pending \ OpSlots :
        /\ slot.dest = target
        /\ pending' = pending \ {slot}
    /\ \E ts \in {spawned_task_failed(tasks, err)} :
        /\ tasks' = ts
        /\ result' = run_event_loop(ts)
    /\ last' = [NoOp EXCEPT !.op = "spawned_send_failed", !.addr = target, !.time = now,
                            !.err = Some(err)]
    /\ UNCHANGED <<our_id, buckets, peer_storage, token_secret, old_token_secret,
                   read_only, subscribers, ip4_source, replies, now, shutdown, mutex,
                   find_node_round, tracked, op>>

\* spawn_with_shutdown: once Shutdown is signalled the spawned task is
\* dropped, with its reply slot and a reply it had not taken
SpawnedShutdown(target) ==
    /\ shutdown
    /\ \E slot \in (pending \cup {r.slot : r \in replies}) \ OpSlots : slot.dest = target
    /\ pending' = {slot \in pending : slot.dest # target \/ slot \in OpSlots}
    /\ replies' = {r \in replies : r.slot.dest # target \/ r.slot \in OpSlots}
    /\ last' = [NoOp EXCEPT !.op = "spawned_shutdown", !.addr = target, !.time = now]
    /\ UNCHANGED <<our_id, buckets, peer_storage, token_secret, old_token_secret,
                   read_only, subscribers, ip4_source, now, loop_vars, tracked, op>>

(***************************************************************************)
(* SpecSpawned: the passes of periodic_find_node ping the router or send   *)
(* find_node to the two verified nodes of the table.  A request cannot be  *)
(* sent, or is answered by a response, by a KRPC error or not at all;      *)
(* Shutdown is signalled at some time.                                     *)
(***************************************************************************)
SpawnedTables == {{}, 4..5}
SpawnedDests == {RouterA} \cup {ResponderAddr(i) : i \in 4..5}

SpawnedReplies(target) ==
    IF target = RouterA
    THEN {new_ping_response(RouterAId, NeighborRouterTid, OurAddr), new_error(NeighborRouterTid)}
    ELSE UNION {{new_find_node_response(i, FindNodeTid(i), OurAddr, <<>>),
                 new_error(FindNodeTid(i))} : i \in {j \in 4..5 : ResponderAddr(j) = target}}

InitSpawned ==
    /\ our_id = 0
    /\ read_only = FALSE
    /\ \E known \in SpawnedTables :
        buckets = [set_id(NodeStorage_new, our_id) EXCEPT
                      !.nodes = {[node |-> OpNode(i), verified |-> TRUE] : i \in known}]
    /\ op = NoCall
    /\ ip4_source = {}
    /\ peer_storage = PeerStorage_new
    /\ token_secret = OneSecret
    /\ old_token_secret = OneSecret
    /\ subscribers = <<>>
    /\ pending = {}
    /\ replies = {}
    /\ now = 0
    /\ tasks = [t \in Tasks |-> "Running"]
    /\ shutdown = FALSE
    /\ result = NoneV
    /\ tracked = NoneV
    /\ last = NoOp
    /\ mutex = NoMutex
    /\ find_node_round = NoneV

\* the ways in which the task spawned for a request to target ends
SpawnedEnds(target) ==
    \/ \E reply \in SpawnedReplies(target) : HandleResponse(reply, target)
    \/ PingExpired(target)
    \/ SpawnedShutdown(target)

NextSpawned ==
    \/ PeriodicFindNodeCount(NeighborRouters, [r \in NeighborRouters |-> NeighborRouterTid])
    \/ PeriodicFindNodeSend
    \/ \E target \in SpawnedDests : \E reply \in SpawnedReplies(target) :
            AcceptPacket(reply, target, EnvOk(FALSE))
    \/ \E target \in SpawnedDests : SpawnedSendFailed(target, "GeneralError")
    \/ \E target \in SpawnedDests : SpawnedEnds(target)
    \/ SignalShutdown
    \/ ShutdownWatch

SpecSpawned == InitSpawned /\ [][NextSpawned]_vars

\* a spawned task that can end is polled: it has its reply, or its timer has
\* fired, or Shutdown is signalled
SpecSpawnedFair == SpecSpawned /\ \A target \in SpawnedDests : WF_vars(SpawnedEnds(target))

\* the task spawned for a request to target has not ended
SpawnedAlive(target) ==
    \E slot \in (pending \cup {r.slot : r \in replies}) \ OpSlots : slot.dest = target

\* C32: no task of the event loop ever ends with an error other than the
\* ShutdownError of the watching future, and the loop returns nothing but
\* Ok; the step in which a spawned task ends, by a timeout, a failed send or
\* a reply of the wrong type (all of them logged), leaves every task of the
\* loop and the pass of periodic_find_node as they were; and every spawned
\* task ends.
C32_FireAndForget ==
    /\ [](\A t \in Tasks : tasks[t] \in {"Running", "Ok"} \/ (t = "shutdown_watch" /\ shutdown))
    /\ [](result \in {NoneV, Some("Ok")})
    /\ [](IsSome(result) => shutdown)
    /\ [][(\E target \in SpawnedDests : SpawnedAlive(target) /\ ~SpawnedAlive(target)') =>
            /\ tasks' = tasks
            /\ result' = result
            /\ find_node_round' = find_node_round]_vars
    /\ \A target \in SpawnedDests : SpawnedAlive(target) ~> ~SpawnedAlive(target)

\* the find_node request to a node has been answered with a KRPC error: the
\* error is logged and the periodic task runs on
C32_Witness ==
    /\ last.op = "response"
    /\ last.err = Some("GeneralError")
    /\ last.addr = ResponderAddr(4)
    /\ Running("periodic_find_node")
    /\ ~SpawnedAlive(ResponderAddr(4))
    /\ SpawnedAlive(ResponderAddr(5))

(***************************************************************************)
(* SpecBoot: find_node or get_peers is called with a timeout on a node     *)
(* whose table is empty, while the clock runs.  The event loop pings node  *)
(* 1, which may answer at any time or never, so the table stays without a  *)
(* verified node for the whole call, or gets one before or during it.      *)
(***************************************************************************)
BootTimeoutSecs == 2

BootReplies ==
    {new_find_node_response(1, LookupTid(OpNode(1)), OurAddr, <<>>),
     new_get_peers_response_peers(1, LookupTid(OpNode(1)), OurAddr, TokenOf(1), Stored(1))}

NextBoot ==
    \/ \E kind \in {"find_node", "get_peers"} :
        /\ now + BootTimeoutSecs <= MaxNow
        /\ OpStartTimed(kind, OpTarget, BootTimeoutSecs)
    \/ OpWakeTimed
    \/ OpReply
    \/ OpRpcError("TimeoutError")
    \/ OpTimeoutTimed
    \/ Tick
    \/ /\ get_all_verified(buckets) = {}
       /\ PingInternal(ResponderAddr(1), BootTid)
    \/ AcceptPacket(new_ping_response(1, BootTid, OurAddr), ResponderAddr(1), EnvOk(FALSE))
    \/ HandleResponse(new_ping_response(1, BootTid, OurAddr), ResponderAddr(1))
    \/ PingExpired(ResponderAddr(1))
    \/ \E reply \in BootReplies :
        /\ \E slot \in pending : SlotMatches(slot, reply, ResponderAddr(1))
        /\ AcceptPacket(reply, ResponderAddr(1), EnvOk(FALSE))

SpecBoot == InitOps /\ [][NextBoot]_vars

\* the clock runs and the timer of the overall timeout fires when it is due
SpecBootFair == SpecBoot /\ WF_vars(Tick) /\ WF_vars(OpTimeoutTimed)

\* the call is find_node or get_peers, it has not returned, and no pass of
\* its loop has found a verified node in the table
Bootstrapping(call) ==
    /\ call.kind \in {"find_node", "get_peers"}
    /\ call.pc # "done"
    /\ call.buckets = {}

\* C34: while find_node or get_peers finds no verified node in the table, it
\* sends no request and sleeps; a pass of seeding is followed by the next no
\* sooner than 1 s later; the call returns only through its overall timeout,
\* never before the timeout has passed since the call, with Ok and an empty
\* result; once the timeout has passed the timer can end the call, and it
\* does.
C34_Bootstrap ==
    /\ [](Bootstrapping(op) =>
            /\ op.pc = "sleep"
            /\ op.todos = {} /\ op.heard = {} /\ op.skipped = {} /\ op.announced = {}
            /\ \A slot \in pending : slot.transaction_id = BootTid
            /\ op.wake_at <= now + 1)
    /\ [][(Bootstrapping(op) /\ op' # op) =>
            \/ /\ last'.op = "op_wake"
               /\ now >= op.wake_at
               /\ op'.pc = "sleep" => (op'.buckets = {} /\ op'.wake_at = now + 1)
               /\ op'.pc # "sleep" => (op'.pc = "rpcs" /\ op'.buckets # {})
            \/ /\ last'.op = "op_timeout"
               /\ now >= op.started + BootTimeoutSecs
               /\ op'.pc = "done"
               /\ op'.result = Some([status |-> "Ok", nodes |-> <<>>, peers |-> <<>>,
                                     responders |-> <<>>])]_vars
    /\ [][(op.pc = "idle" /\ op' # op /\ get_all_verified(buckets) = {}) =>
            /\ Bootstrapping(op')
            /\ op'.wake_at = now + 1 /\ op'.started = now]_vars
    /\ []((Bootstrapping(op) /\ now >= op.started + BootTimeoutSecs) =>
            ENABLED OpTimeoutTimed)
    /\ (op.pc \in {"sleep", "rpcs"}) ~> (op.pc = "done")

\* a get_peers that found no verified node in passes at 0 s, 1 s and at the
\* timeout has returned through the timeout
C34_Witness ==
    /\ op.kind = "get_peers" /\ op.pc = "done" /\ op.buckets = {}
    /\ op.ended = {"timeout"}
    /\ op.wake_at = op.started + BootTimeoutSecs + 1
    /\ get_all_verified(buckets) = {}


\* C33: every request an iterative operation has in flight was handed to
\* send_request with a timeout of 5 seconds, whatever the timeout of the
\* operation is.
C33_PerRequestTimeout ==
    op.kind \in {"find_node", "get_peers", "announce_peer"} =>
        \A t \in op.todos : t.timeout = Some(RequestTimeoutSecs)

\* C35: a call of send_request with a message that is not a request (a
\* response or a KRPC error) returns a GeneralError in the step of the call:
\* no request is in flight for it, and the requests in flight, the replies
\* that wait, the routing table, the votes and the rest of the state are as
\* before.
C35_OnlyRequests ==
    [][(last'.op = "send_request" /\ now' = now
            /\ last'.msg.message_type # "Request") =>
            /\ op'.pc = "done"
            /\ op'.result = Some("GeneralError")
            /\ op'.slots = {} /\ op'.todos = {}
            /\ pending' = pending /\ replies' = replies
            /\ buckets' = buckets /\ ip4_source' = ip4_source
            /\ peer_storage' = peer_storage /\ our_id' = our_id
            /\ subscribers' = subscribers]_vars

\* send_request was called with a ping response while a ping of the event
\* loop was in flight, and has returned the GeneralError
C35_Witness ==
    /\ last.op = "send_request" /\ last.msg.message_type = "Response"
    /\ op.kind = "send_request" /\ op.result = Some("GeneralError")
    /\ \E slot \in pending : slot.transaction_id = PingTid

\* the same with a KRPC error message, after a node has been verified
C35_WitnessError ==
    /\ last.op = "send_request" /\ last.msg.message_type = "Error"
    /\ op.result = Some("GeneralError")
    /\ get_all_verified(buckets) # {}

StoreRequests ==
    {new_ping_request(7, 1, NoneV), new_find_node_request(7, 1, NoneV, 3),
     new_get_peers_request(7, 1, NoneV, 3),
     new_sample_infohashes_request(7, 1, NoneV, 3)}

StoreAnnounces ==
    {new_announce_peer_request(7, 1, NoneV, 3, 1234, NoneV, token) :
        token \in TokensFor({SocketAddr(PublicIp, 2014)})
                    \cup {calculate_token(SocketAddr(LOCALHOST, 2014), OneSecret)}}

NextStore ==
    \/ \E msg \in StoreRequests :
            AcceptPacket(msg, SocketAddr(LOCALHOST, 2014), EnvOk(FALSE))
    \/ \E msg \in StoreAnnounces :
            AcceptPacket(msg, SocketAddr(PublicIp, 2014), EnvOk(FALSE))
    \/ TokenRotation
    \/ PingInternal(Responder, 1)
    \/ AcceptPacket(new_ping_response(ResponderId, 1, OurAddr), Responder, EnvOk(FALSE))
    \/ HandleResponse(new_ping_response(ResponderId, 1, OurAddr), Responder)
    \/ /\ now = MaxNow
       /\ Ip4Maintenance
    \/ Tick

SpecStore == InitTok /\ [][NextStore]_vars

\* what PeerStorage holds: an entry for each info_hash and peer stored
StoredEntries(ps) ==
    UNION {{[info_hash |-> ps[k].info_hash, peer |-> p] : p \in Range(ps[k].peers)} :
            k \in DOMAIN ps}

\* C37: PeerStorage changes only in the step that handles an announce_peer
\* request whose token is the token of the sender's address under the
\* current or the previous secret; after the step it holds an entry for the
\* info_hash announced and a socket address with the sender's IP, stamped
\* now; every other entry it holds after the step it held before.
C37_OnlyValidAnnounce ==
    [][peer_storage' # peer_storage =>
        /\ last'.op = "accept"
        /\ last'.dispatched
        /\ last'.msg.message_type = "Request"
        /\ last'.msg.kind = "announce_peer"
        /\ \/ last'.msg.token = calculate_token(last'.addr, token_secret)
           \/ last'.msg.token = calculate_token(last'.addr, old_token_secret)
        /\ \E port \in {last'.addr.port, last'.msg.port} :
            \E e \in StoredEntries(peer_storage') :
                /\ e = [info_hash |-> last'.msg.target,
                        peer |-> [addr |-> SocketAddr(last'.addr.ip, port),
                                  last_updated |-> now]]
                /\ StoredEntries(peer_storage') \ StoredEntries(peer_storage) \subseteq {e}]_vars

\* an announce with the token of the previous secret, which is not the token
\* of the current one, has been stored
C37_Witness ==
    /\ last.op = "accept" /\ last.dispatched
    /\ last.msg.message_type = "Request" /\ last.msg.kind = "announce_peer"
    /\ last.msg.token = calculate_token(last.addr, old_token_secret)
    /\ last.msg.token # calculate_token(last.addr, token_secret)
    /\ \E e \in StoredEntries(peer_storage) :
        /\ e.info_hash = 3
        /\ e.peer.addr = SocketAddr(PublicIp, 1234)
        /\ e.peer.last_updated = now
    /\ now > 0

\* C38: in every state the Id by which the routing table is keyed is the
\* local Id; after construction either of them changes only in a round of
\* periodic_ip4_maintenance, which sets both to the same new Id in the one
\* step it holds the lock for, and leaves the nodes of the table as they
\* were.
C38_TableIdIsLocalId ==
    /\ [](buckets.id = our_id)
    /\ [][(our_id' # our_id \/ buckets'.id # buckets.id) =>
            /\ last'.op = "ip4_maintenance"
            /\ our_id' # our_id
            /\ buckets'.id = our_id'
            /\ buckets'.nodes = buckets.nodes]_vars

\* a round of the maintenance has given the node, whose table holds a
\* verified node, a new Id, and the table is keyed by it
C38_Witness ==
    /\ last.op = "ip4_maintenance"
    /\ IsSome(last.id) /\ Unwrap(last.id) # our_id
    /\ buckets.id = our_id
    /\ buckets.id # NodeStorage_new.id
    /\ get_all_verified(buckets) # {}

\* DHT::new without an Id of the caller: the Id comes from the address
\* source and the table is keyed by it
C38_WitnessNew ==
    /\ last.op = "new" /\ last.id = NoneV /\ IsSome(last.best)
    /\ buckets.id = our_id /\ our_id # NodeStorage_new.id

\* no node is listed twice in the sequence of responders or of nodes
EachNodeOnce(list, id_of(_)) ==
    \A i, j \in DOMAIN list : id_of(list[i]) = id_of(list[j]) => i = j

\* C39: the responders of the result of get_peers list each node at most
\* once; announce_peer builds at most one announce for a node and returns
\* each node that acknowledged at most once.
C39_RespondersOnce ==
    /\ (op.kind = "get_peers" /\ op.pc = "done") =>
            EachNodeOnce(Unwrap(op.result).responders, LAMBDA r : r.node.id)
    /\ op.kind = "announce_peer" =>
            /\ \A a, b \in op.announced : a.dest = b.dest => a = b
            /\ op.pc = "done" => EachNodeOnce(Unwrap(op.result).nodes, LAMBDA n : n.id)

(***************************************************************************)
(* SpecPort: get_peers and announce_peer requests from two ports of one IP *)
(* and from another IP, the announces with any token the node can have     *)
(* issued to one of them, interleaved with token rotations.                *)
(***************************************************************************)
PortAddrs ==
    {SocketAddr(PublicIp, 2014), SocketAddr(PublicIp, 2015), SocketAddr(LOCALHOST, 2014)}

NextPort ==
    \/ \E addr \in PortAddrs, track \in BOOLEAN :
            AcceptPacket(new_get_peers_request(7, 1, NoneV, 3), addr, EnvOk(track))
    \/ \E addr \in PortAddrs, token \in TokensFor(PortAddrs) :
            AcceptPacket(new_announce_peer_request(7, 1, NoneV, 3, 1234, NoneV, token),
                         addr, EnvOk(FALSE))
    \/ TokenRotation

SpecPort == InitTok /\ [][NextPort]_vars

\* C40: the token of an address is the token of every port of its IP, and
\* differs from the token of another IP under any secret; an announce_peer
\* with the token a get_peers reply issued to ip:p1 is accepted from any
\* port of ip when at most one rotation happened since, and is not accepted
\* from another IP, whatever the rotations.
C40_TokenBoundToIp ==
    /\ \A a, b \in PortAddrs :
        \A s, t \in make_token_secret(token_secret_size) :
            /\ (a.ip = b.ip /\ s = t) => calculate_token(a, s) = calculate_token(b, t)
            /\ a.ip # b.ip => calculate_token(a, s) # calculate_token(b, t)
    /\ (AnnounceHandled /\ IsSome(tracked) /\ last.msg.token = Unwrap(tracked).token) =>
        /\ (last.addr.ip = Unwrap(tracked).addr.ip /\ Unwrap(tracked).rotations <= 1) =>
            /\ last.sent # <<>>
            /\ \E e \in StoredEntries(peer_storage) :
                /\ e.info_hash = last.msg.target
                /\ e.peer.addr = SocketAddr(last.addr.ip, last.msg.port)
        /\ last.addr.ip # Unwrap(tracked).addr.ip => last.sent = <<>>

\* the token issued to one port was announced with from the other port of
\* the IP after one rotation, and accepted
C40_Witness ==
    /\ AnnounceHandled /\ IsSome(tracked)
    /\ last.msg.token = Unwrap(tracked).token
    /\ last.addr.ip = Unwrap(tracked).addr.ip
    /\ last.addr.port # Unwrap(tracked).addr.port
    /\ Unwrap(tracked).rotations = 1
    /\ last.sent # <<>>
    /\ peer_storage # <<>>

\* the token issued to one IP was announced with from the other IP, and
\* rejected
C40_WitnessOtherIp ==
    /\ AnnounceHandled /\ IsSome(tracked)
    /\ last.msg.token = Unwrap(tracked).token
    /\ last.addr.ip # Unwrap(tracked).addr.ip
    /\ last.sent = <<>>

====
